---- MODULE Spec2Model ----
(***************************************************************************)
(* ARM11 dynamic binary translator core: guest word decoder, translator    *)
(* to the micro IR, lowering to three-address code, the TAC interpreter    *)
(* and the block cache / dispatch loop of ARM_MicroInterpreter.            *)
(*                                                                         *)
(* A u32 is the pair <<hi, lo>> of its two 16-bit halves, so that every    *)
(* 32-bit value (sign bit, wrap-around) is represented exactly.            *)
(***************************************************************************)
EXTENDS Integers, Sequences, FiniteSets, TLC

\* ------------------------------------------------------------------------
\* Bounds of the model
\* ------------------------------------------------------------------------
MaxBudget == 2
MaxRuns == 2
MaxWrites == 1
MaxValues == 3       \* values a pass adds to a block through the builder
MaxEdits == 1        \* SetArg and ReplaceUsesWith calls of a pass
MaxCtxOps == 3       \* register and context calls of the host
MaxAdds == 2         \* AddSamples calls of the emulation thread
MaxCallbacks == 2    \* output callbacks of the audio thread

\* ------------------------------------------------------------------------
\* 32-bit arithmetic on <<hi, lo>>
\* ------------------------------------------------------------------------
W16 == 65536

U32(hi, lo) == <<hi, lo>>

Zero32 == <<0, 0>>

Add32(a, b) ==
    LET lo == a[2] + b[2]
        hi == a[1] + b[1] + (lo \div W16)
    IN  <<hi % W16, lo % W16>>

Lt32(a, b) == a[1] < b[1] \/ (a[1] = b[1] /\ a[2] < b[2])

Bit16(x, n) == (x \div (2 ^ n)) % 2

\* bit n (0..31) of a u32
Bit32(a, n) == IF n >= 16 THEN Bit16(a[1], n - 16) ELSE Bit16(a[2], n)

SignBit(a) == Bit16(a[1], 15)

Rotl1(a) == <<(a[1] * 2 + Bit16(a[2], 15)) % W16, (a[2] * 2 + Bit16(a[1], 15)) % W16>>

Rotr1(a) == <<(a[1] \div 2) + 32768 * Bit16(a[2], 0), (a[2] \div 2) + 32768 * Bit16(a[1], 0)>>

RECURSIVE Rotl32(_, _)
Rotl32(a, n) == IF n = 0 THEN a ELSE Rotl32(Rotl1(a), n - 1)

RECURSIVE Rotr32(_, _)
Rotr32(a, n) == IF n = 0 THEN a ELSE Rotr32(Rotr1(a), n - 1)

\* x & 0xFFF
And0xFFF(a) == a[2] % 4096

\* x & 0xFFFFFFFC
AndFFFFFFFC(a) == <<a[1], a[2] - (a[2] % 4)>>

\* ------------------------------------------------------------------------
\* Cond, LocationDescriptor
\* ------------------------------------------------------------------------
EQ == 0
AL == 14
NV == 15

CondValues == 0..15

LocationDescriptor(arm_pc, TFlag, EFlag, cond) ==
    [arm_pc |-> arm_pc, TFlag |-> TFlag, EFlag |-> EFlag, cond |-> cond]

\* ------------------------------------------------------------------------
\* Guest memory
\* ------------------------------------------------------------------------
\* Word returned for an address outside the mapped test region.
UnmappedWord == <<0, 0>>

Read32(mem, vaddr) == IF vaddr \in DOMAIN mem THEN mem[vaddr] ELSE UnmappedWord

\* ------------------------------------------------------------------------
\* Decoder: DecodeArm(word) gives the visitor method and the operand bundle,
\* or the name "None" for an undefined word.
\* ------------------------------------------------------------------------
DecodedInst(name, cond, S, n, d, rotate, imm8, imm24) ==
    [name |-> name, cond |-> cond, S |-> S, n |-> n, d |-> d,
     rotate |-> rotate, imm8 |-> imm8, imm24 |-> imm24]

DecodeArm(w) ==
    LET hi == w[1]
        lo == w[2]
        cond == hi \div 4096
        b27_25 == (hi \div 512) % 8
        b24 == Bit16(hi, 8)
        b24_21 == (hi \div 32) % 16
        S == Bit16(hi, 4) = 1
        n == hi % 16
        d == lo \div 4096
        rotate == (lo \div 256) % 16
        imm8 == lo % 256
        imm24 == (hi % 256) * W16 + lo
        mk(name) == DecodedInst(name, cond, S, n, d, rotate, imm8, imm24)
    IN  IF cond = NV
        THEN IF b27_25 = 5 THEN mk("BLX_imm") ELSE mk("None")
        ELSE IF b27_25 = 5
             THEN IF b24 = 0 THEN mk("B") ELSE mk("BL")
             ELSE IF b27_25 = 1 /\ b24_21 = 4
                  THEN mk("ADD_imm")
                  ELSE IF b27_25 = 3 /\ Bit16(lo, 4) = 1 /\ (hi \div 16) % 32 = 31
                                     /\ (lo \div 32) % 8 = 7
                       THEN mk("None")
                       ELSE mk("Other")

\* ------------------------------------------------------------------------
\* Micro IR: flags, op-info table, values, builder
\* ------------------------------------------------------------------------
NoFlags == {}
NZCV == {"N", "Z", "C", "V"}
AnyFlags == {"N", "Z", "C", "V", "Q", "GE"}

\* enum class MicroOp, in declaration order
MicroOpNames == <<"ConstU32", "GetGPR", "SetGPR", "PushRSBHint", "AluWritePC",
                  "LoadWritePC", "Add", "AddWithCarry", "Sub", "And", "Eor", "Not",
                  "LSL", "LSR", "ASR", "ROR", "RRX", "CountLeadingZeros",
                  "ClearExclusive", "Read32">>

\* static_cast<u16>(op)
MicroOpValue(op) == (CHOOSE i \in 1..Len(MicroOpNames) : MicroOpNames[i] = op) - 1

micro_op_info ==
    [op \in {"ConstU32", "GetGPR", "SetGPR", "Add", "AddWithCarry"} |->
        CASE op = "ConstU32" -> [ret_type |-> "U32", read_flags |-> NoFlags,
                                 default_write_flags |-> NoFlags, arg_types |-> <<>>]
          [] op = "GetGPR" -> [ret_type |-> "U32", read_flags |-> NoFlags,
                               default_write_flags |-> NoFlags, arg_types |-> <<>>]
          [] op = "SetGPR" -> [ret_type |-> "Void", read_flags |-> NoFlags,
                               default_write_flags |-> NoFlags, arg_types |-> <<"U32">>]
          [] op = "Add" -> [ret_type |-> "U32", read_flags |-> NoFlags,
                            default_write_flags |-> NZCV, arg_types |-> <<"U32", "U32">>]
          [] op = "AddWithCarry" -> [ret_type |-> "U32", read_flags |-> {"C"},
                                     default_write_flags |-> NZCV,
                                     arg_types |-> <<"U32", "U32">>]]

\* GetMicroOpInfo throws for an op that is not in the table.
HasMicroOpInfo(op) == op \in DOMAIN micro_op_info

\* A MicroValue.  A value is identified by its position in the instruction
\* list of its block (the block owns every value); args are such positions
\* and 0 is the empty pointer.  uses is the use list: one entry per use,
\* holding the position of the use's owner, in the order of AddUse.
MicroValue(op, reg, value, args, write_flags) ==
    [op |-> op, reg |-> reg, value |-> value, args |-> args, write_flags |-> write_flags,
     uses |-> <<>>]

GetType(v) ==
    IF v.op \in {"ConstU32", "GetGPR"} THEN "U32"
    ELSE IF v.op = "SetGPR" THEN "Void"
    ELSE micro_op_info[v.op].ret_type

\* Terminals
ReturnToDispatch == [type |-> "ReturnToDispatch", next |-> LocationDescriptor(Zero32, FALSE, FALSE, AL)]
Interpret(next) == [type |-> "Interpret", next |-> next]
LinkBlock(next) == [type |-> "LinkBlock", next |-> next]
LinkBlockFast(next) == [type |-> "LinkBlockFast", next |-> next]
PopRSBHint == [type |-> "PopRSBHint", next |-> LocationDescriptor(Zero32, FALSE, FALSE, AL)]
If(if_, then_, else_) == [type |-> "If", if_ |-> if_, then_ |-> then_, else_ |-> else_]

MicroBlock(location) ==
    [location |-> location, instructions |-> <<>>,
     terminal |-> ReturnToDispatch, cycles_consumed |-> 0]

\* MicroBuilder: [block, flags_written, fatal]; fatal records a failed
\* assertion or an exception thrown while building.
MicroBuilder(desc) == [block |-> MicroBlock(desc), flags_written |-> NoFlags, fatal |-> FALSE]

Emplace(ir, v) == [ir EXCEPT !.block.instructions = Append(@, v)]

\* The value most recently emitted.
LastValue(ir) == Len(ir.block.instructions)

\* uses.push_back({this, owner})
AddUse(ir, value, owner) == [ir EXCEPT !.block.instructions[value].uses = Append(@, owner)]

\* The sequence s without its element at position i.
EraseAt(s, i) == [j \in 1..(Len(s) - 1) |-> IF j < i THEN s[j] ELSE s[j + 1]]

RemoveUse_Keep(ir, value, owner) == ir

\* Erases the first use owned by owner; asserts that there is one.
RemoveUse(ir, value, owner) ==
    LET uses == ir.block.instructions[value].uses
        found == {i \in 1..Len(uses) : uses[i] = owner}
    IN  IF found = {}
        THEN [ir EXCEPT !.fatal = TRUE]
        ELSE [ir EXCEPT !.block.instructions[value].uses =
                            EraseAt(@, CHOOSE i \in found : \A j \in found : i <= j)]

\* MicroSetGPR::SetArg on the value at position owner
MicroSetGPR_SetArg(ir, owner, value) ==
    LET Bind(ir1) ==
            IF ir1.fatal \/ GetType(ir1.block.instructions[value]) # "U32"
            THEN [ir1 EXCEPT !.fatal = TRUE]
            ELSE AddUse([ir1 EXCEPT !.block.instructions[owner].args[1] = value],
                        value, owner)
        prev_value == ir.block.instructions[owner].args[1]
    IN  IF prev_value # 0 THEN Bind(RemoveUse(ir, prev_value, owner)) ELSE Bind(ir)

\* MicroInst::SetArg on the value at position owner; index counts from 1,
\* and args.at(index) throws when the instruction has no such slot.
MicroInst_SetArg(ir, owner, index, value) ==
    LET Bind(ir1) ==
            IF \/ ir1.fatal
               \/ GetType(ir1.block.instructions[value]) #
                      micro_op_info[ir1.block.instructions[owner].op].arg_types[index]
            THEN [ir1 EXCEPT !.fatal = TRUE]
            ELSE AddUse([ir1 EXCEPT !.block.instructions[owner].args[index] = value],
                        value, owner)
        args == ir.block.instructions[owner].args
    IN  IF ir.fatal \/ index \notin 1..Len(args)
        THEN [ir EXCEPT !.fatal = TRUE]
        ELSE IF args[index] # 0
             THEN Bind(RemoveUse(ir, args[index], owner))
             ELSE Bind(ir)

GetGPR(ir, reg) == Emplace(ir, MicroValue("GetGPR", reg, Zero32, <<>>, NoFlags))

ConstU32(ir, u32_value) == Emplace(ir, MicroValue("ConstU32", 0, u32_value, <<>>, NoFlags))

\* make_shared<MicroSetGPR>(reg); value->SetArg(a); emplace_back(value)
SetGPR(ir, reg, a) ==
    MicroSetGPR_SetArg(Emplace(ir, MicroValue("SetGPR", reg, Zero32, <<0>>, NoFlags)),
                       Len(ir.block.instructions) + 1, a)

\* SetArg(0, a), SetArg(1, b), ... on the instruction at position owner
SetArgs(ir, owner, args) ==
    LET RECURSIVE From(_, _)
        From(ir1, i) ==
            IF i > Len(args) THEN ir1
            ELSE From(MicroInst_SetArg(ir1, owner, i, args[i]), i + 1)
    IN  From(ir, 1)

\* Inst without the update of flags_written.
Inst_NoUnion(ir, op, args, write_flags) ==
    IF ~HasMicroOpInfo(op)
    THEN [ir EXCEPT !.fatal = TRUE]
    ELSE LET info == micro_op_info[op]
             Flags(ir1) ==
                 IF \/ ir1.fatal
                    \/ Len(args) # Len(info.arg_types)
                    \/ (write_flags \ info.default_write_flags) # NoFlags
                 THEN [ir1 EXCEPT !.fatal = TRUE]
                 ELSE [ir1 EXCEPT !.block.instructions[Len(ir.block.instructions) + 1]
                                      .write_flags = write_flags]
         IN  Flags(SetArgs(Emplace(ir, MicroValue(op, 0, Zero32,
                                                  [i \in 1..Len(info.arg_types) |-> 0],
                                                  NoFlags)),
                           Len(ir.block.instructions) + 1, args))

\* make_shared<MicroInst>(op); SetArg per argument; AssertValid (every slot
\* is bound); the write_flags check; SetWriteFlags; flags_written |= write_flags; emplace_back(value)
Inst(ir, op, args, write_flags) ==
    IF ~HasMicroOpInfo(op)
    THEN [ir EXCEPT !.fatal = TRUE]
    ELSE LET info == micro_op_info[op]
             Flags(ir1) ==
                 IF \/ ir1.fatal
                    \/ Len(args) # Len(info.arg_types)
                    \/ (write_flags \ info.default_write_flags) # NoFlags
                 THEN [ir1 EXCEPT !.fatal = TRUE]
                 ELSE [ir1 EXCEPT !.flags_written = @ \cup write_flags,
                                  !.block.instructions[Len(ir.block.instructions) + 1]
                                      .write_flags = write_flags]
         IN  Flags(SetArgs(Emplace(ir, MicroValue(op, 0, Zero32,
                                                  [i \in 1..Len(info.arg_types) |-> 0],
                                                  NoFlags)),
                           Len(ir.block.instructions) + 1, args))

\* MicroInst::ReplaceUseOfXWithY and MicroSetGPR::ReplaceUseOfXWithY on the
\* value at position owner: every slot that holds x is rebound to y, with
\* no look at the type of y; a value without slots, or without x in a slot,
\* fails the assertion.
ReplaceUseOfXWithY(ir, owner, x, y) ==
    LET RECURSIVE Slots(_, _)
        Slots(ir1, i) ==
            IF i > Len(ir1.block.instructions[owner].args) THEN ir1
            ELSE IF ir1.block.instructions[owner].args[i] = x
                 THEN Slots(AddUse(RemoveUse([ir1 EXCEPT
                                                  !.block.instructions[owner].args[i] = y],
                                             x, owner), y, owner), i + 1)
                 ELSE Slots(ir1, i + 1)
        has_use == \E i \in 1..Len(ir.block.instructions[owner].args) :
                       ir.block.instructions[owner].args[i] = x
    IN  IF ir.fatal \/ ~has_use
        THEN [ir EXCEPT !.fatal = TRUE]
        ELSE Slots(ir, 1)

\* MicroValue::ReplaceUsesWith.  The range-for walks the std::list uses
\* while each call of ReplaceUseOfXWithY erases from that list: the first
\* call erases the node the loop is standing on, so the step to the next
\* node reads a node that was freed.  ub is what that read gives: "next",
\* the node's old successor (the walk goes on over the list as it was when
\* the loop started); "end", the end of the list; "trap", a fault.
UBOutcomes == {"next", "end", "trap"}

ReplaceUsesWith(ir, value, replacement, ub) ==
    LET old == ir.block.instructions[value].uses
        RECURSIVE Walk(_, _)
        Walk(ir1, k) ==
            IF k > Len(old) \/ ir1.fatal THEN ir1
            ELSE Walk(ReplaceUseOfXWithY(ir1, old[k], value, replacement), k + 1)
        AssertEmpty(ir1) ==
            IF ir1.fatal \/ ir1.block.instructions[value].uses # <<>>
            THEN [ir1 EXCEPT !.fatal = TRUE]
            ELSE ir1
    IN  IF old = <<>> THEN ir
        ELSE IF ub = "trap" THEN [ir EXCEPT !.fatal = TRUE]
        ELSE IF ub = "end"
             THEN AssertEmpty(ReplaceUseOfXWithY(ir, old[1], value, replacement))
             ELSE AssertEmpty(Walk(ir, 1))

SetTerm(ir, term) == [ir EXCEPT !.block.terminal = term]

\* ------------------------------------------------------------------------
\* ArmTranslator
\* ------------------------------------------------------------------------
\* reg_values[i] = 0 stands for the null pointer.  fetched records the
\* addresses handed to Memory::Read32 and visited the cursor and decoded
\* bundle of every guest instruction met (history of the translation).
ArmTranslator(location) ==
    [ir |-> MicroBuilder(location), current |-> location,
     instructions_translated |-> 0, stop_compilation |-> FALSE,
     reg_values |-> [i \in 0..14 |-> 0],
     fetched |-> {}, visited |-> <<>>]

GetReg_AlwaysGet(tr, reg) ==
    LET FromPC(ir1) == [tr |-> [tr EXCEPT !.ir = ir1], value |-> LastValue(ir1)]
        FromGPR(ir1) == [tr |-> [tr EXCEPT !.ir = ir1, !.reg_values[reg] = LastValue(ir1)],
                         value |-> LastValue(ir1)]
    IN  IF reg = 15
        THEN FromPC(ConstU32(tr.ir, Add32(tr.current.arm_pc, <<0, 8>>)))
        ELSE FromGPR(GetGPR(tr.ir, reg))

GetReg(tr, reg) ==
    LET FromPC(ir1) == [tr |-> [tr EXCEPT !.ir = ir1], value |-> LastValue(ir1)]
        FromGPR(ir1) == [tr |-> [tr EXCEPT !.ir = ir1, !.reg_values[reg] = LastValue(ir1)],
                         value |-> LastValue(ir1)]
    IN  IF reg = 15
        THEN FromPC(ConstU32(tr.ir, Add32(tr.current.arm_pc, <<0, 8>>)))
        ELSE IF tr.reg_values[reg] = 0
             THEN FromGPR(GetGPR(tr.ir, reg))
             ELSE [tr |-> tr, value |-> tr.reg_values[reg]]

SetReg(tr, reg, value) == [tr EXCEPT !.reg_values[reg] = value]

FallbackToInterpreter_Next(tr) ==
    [tr EXCEPT !.ir = SetTerm(@, Interpret([tr.current EXCEPT
                                                !.arm_pc = Add32(@, <<0, 4>>)])),
               !.stop_compilation = TRUE]

FallbackToInterpreter(tr) ==
    [tr EXCEPT !.ir = SetTerm(@, Interpret(tr.current)), !.stop_compilation = TRUE]

ConditionPassed_KeepCond(tr, cond) ==
    IF cond = tr.current.cond /\ tr.ir.flags_written = NoFlags
    THEN [passed |-> TRUE, tr |-> tr]
    ELSE [passed |-> FALSE,
          tr |-> [tr EXCEPT !.instructions_translated = @ - 1,
                            !.ir = SetTerm(@, LinkBlock(tr.current)),
                            !.stop_compilation = TRUE]]

ConditionPassed_NoRewind(tr, cond) ==
    IF cond = tr.current.cond /\ tr.ir.flags_written = NoFlags
    THEN [passed |-> TRUE, tr |-> tr]
    ELSE LET next == [tr.current EXCEPT !.cond = cond]
         IN  [passed |-> FALSE,
              tr |-> [tr EXCEPT !.ir = SetTerm(@, LinkBlock(next)),
                                !.stop_compilation = TRUE]]

ConditionPassed_IgnoreFlags(tr, cond) ==
    IF cond = tr.current.cond
    THEN [passed |-> TRUE, tr |-> tr]
    ELSE LET next == [tr.current EXCEPT !.cond = cond]
         IN  [passed |-> FALSE,
              tr |-> [tr EXCEPT !.instructions_translated = @ - 1,
                                !.ir = SetTerm(@, LinkBlock(next)),
                                !.stop_compilation = TRUE]]

ConditionPassed(tr, cond) ==
    IF cond = tr.current.cond /\ tr.ir.flags_written = NoFlags
    THEN [passed |-> TRUE, tr |-> tr]
    ELSE LET next == [tr.current EXCEPT !.cond = cond]
         IN  [passed |-> FALSE,
              tr |-> [tr EXCEPT !.instructions_translated = @ - 1,
                                !.ir = SetTerm(@, LinkBlock(next)),
                                !.stop_compilation = TRUE]]

BranchWritePC_NoStop(tr, new_pc) ==
    LET next == [tr.current EXCEPT !.arm_pc = new_pc]
    IN  [tr EXCEPT !.ir = SetTerm(@, LinkBlock(next))]

\* BranchWritePC(u32 new_pc)
BranchWritePC(tr, new_pc) ==
    LET next == [tr.current EXCEPT !.arm_pc = new_pc]
    IN  [tr EXCEPT !.ir = SetTerm(@, LinkBlock(next)), !.stop_compilation = TRUE]

\* BranchWritePC(std::shared_ptr<MicroValue> new_pc)
BranchWritePCValue(tr, new_pc) ==
    [tr EXCEPT !.ir = SetTerm(Inst(@, "BranchWritePC", <<new_pc>>, NoFlags), ReturnToDispatch),
               !.stop_compilation = TRUE]

ALUWritePC(tr, new_pc) == BranchWritePCValue(tr, new_pc)

\* _rotl(imm8, rotate * 2)
ArmExpandImm(imm8, rotate) == Rotl32(<<0, imm8>>, rotate * 2)

PC(tr) == Add32(tr.current.arm_pc, <<0, 8>>)

SignExtend26_ZeroExtend(imm24) == <<(imm24 * 4) \div W16, (imm24 * 4) % W16>>

\* BitUtil::SignExtend<26, u32>(imm24 << 2)
SignExtend26(imm24) ==
    LET v == imm24 * 4
        hi == v \div W16
        lo == v % W16
    IN  IF Bit16(hi, 9) = 1 THEN <<hi + 64512, lo>> ELSE <<hi, lo>>

B(tr, cond, imm24) ==
    LET imm32 == SignExtend26(imm24)
        Body(cp) == IF ~cp.passed THEN cp.tr
                    ELSE BranchWritePC(cp.tr, Add32(PC(cp.tr), imm32))
    IN  Body(ConditionPassed(tr, cond))

ADD_imm(tr, cond, S, n, d, rotate, imm8) ==
    LET expanded_imm == ArmExpandImm(imm8, rotate)
        write_flags == IF S THEN NZCV ELSE NoFlags
        \* result = the value just emitted into tr2.ir
        WriteBack(tr2) ==
            IF d = 15 THEN ALUWritePC(tr2, LastValue(tr2.ir))
            ELSE SetReg(tr2, d, LastValue(tr2.ir))
        \* imm32 = the value just emitted into ir1
        AddImm(Rn, ir1) ==
            WriteBack([Rn.tr EXCEPT
                          !.ir = Inst(ir1, "Add", <<Rn.value, LastValue(ir1)>>, write_flags)])
        Operands(Rn) == AddImm(Rn, ConstU32(Rn.tr.ir, expanded_imm))
        Body(cp) == IF ~cp.passed THEN cp.tr ELSE Operands(GetReg(cp.tr, n))
    IN  Body(ConditionPassed(tr, cond))

\* inst_info->Visit(this, inst)
Visit(tr, inst_info) ==
    CASE inst_info.name = "ADD_imm" ->
            ADD_imm(tr, inst_info.cond, inst_info.S, inst_info.n, inst_info.d,
                    inst_info.rotate, inst_info.imm8)
      [] inst_info.name = "B" -> B(tr, inst_info.cond, inst_info.imm24)
      [] OTHER -> FallbackToInterpreter(tr)

TranslateSingleArmInstruction(mem, tr) ==
    LET inst == Read32(mem, AndFFFFFFFC(tr.current.arm_pc))
        \* the history entry of this instruction
        Met(inst_info) ==
            [tr EXCEPT !.fetched = @ \cup {AndFFFFFFFC(tr.current.arm_pc)},
                       !.visited = Append(@, [at |-> tr.current, inst |-> inst_info,
                                              emitted |-> Len(tr.ir.block.instructions),
                                              flags_before |-> tr.ir.flags_written])]
        Body(inst_info, tr0) ==
            IF inst_info.name = "None"
            THEN FallbackToInterpreter(tr0)
            ELSE [Visit(tr0, inst_info) EXCEPT !.current.arm_pc = Add32(@, <<0, 4>>)]
        Decoded(inst_info) == Body(inst_info, Met(inst_info))
    IN  Decoded(DecodeArm(inst))

\* do { ... } while (!stop_compilation && (current.arm_pc & 0xFFF) != 0)
RECURSIVE TranslateLoop(_, _)
TranslateLoop(mem, tr) ==
    LET While(tr1) ==
            IF ~tr1.stop_compilation /\ And0xFFF(tr1.current.arm_pc) # 0 /\ ~tr1.ir.fatal
            THEN TranslateLoop(mem, tr1)
            ELSE tr1
    IN  While(TranslateSingleArmInstruction(
                  mem, [tr EXCEPT !.instructions_translated = @ + 1]))

FlushRegs_None(ir, reg_values, i) == ir

\* for (i = 0; i < reg_values.size(); i++) if (...) ir.SetGPR(i, reg_values[i])
RECURSIVE FlushRegs(_, _, _)
FlushRegs(ir, reg_values, i) ==
    IF i > 14 THEN ir
    ELSE IF reg_values[i] # 0 /\ ir.block.instructions[reg_values[i]].op # "GetGPR"
         THEN FlushRegs(SetGPR(ir, i, reg_values[i]), reg_values, i + 1)
         ELSE FlushRegs(ir, reg_values, i + 1)

CyclesConsumed_Visited(tr) == Len(tr.visited)

\* ir.block.cycles_consumed = instructions_translated
CyclesConsumed(tr) == tr.instructions_translated

\* ArmTranslator::Translate; the result keeps the translator's final state.
ArmTranslate(mem, location) ==
    LET Finish(tr1) ==
            [tr1 EXCEPT
                !.ir = [FlushRegs(IF ~tr1.stop_compilation
                                  THEN SetTerm(tr1.ir, LinkBlock(tr1.current))
                                  ELSE tr1.ir,
                                  tr1.reg_values, 0)
                        EXCEPT !.block.cycles_consumed = CyclesConsumed(tr1)],
                !.stop_compilation = TRUE]
    IN  Finish(TranslateLoop(mem, ArmTranslator(location)))

\* ArmJit::Translate: the block, whether building it failed fatally, and the
\* history of the translation.
Translate(mem, location) ==
    LET Result(tr) == [block |-> tr.ir.block, fatal |-> tr.ir.fatal,
                       fetched |-> tr.fetched, visited |-> tr.visited,
                       cursor |-> tr.current, reg_values |-> tr.reg_values]
    IN
    IF ~location.TFlag
    THEN Result(ArmTranslate(mem, location))
    ELSE [block |-> [MicroBlock(location) EXCEPT !.terminal = Interpret(location)],
          fatal |-> FALSE, fetched |-> {}, visited |-> <<>>, cursor |-> location,
          reg_values |-> [i \in 0..14 |-> 0]]

\* History of a translation t: the guest instructions with a lowering, whether
\* the one met as v passed the condition check, and how many of those met
\* have their IR in the block.
LoweredNames == {"ADD_imm", "B"}

Passed(v) == v.inst.cond = v.at.cond /\ v.flags_before = NoFlags

AppliedCount(t) ==
    Cardinality({k \in 1..Len(t.visited) :
                    t.visited[k].inst.name \in LoweredNames /\ Passed(t.visited[k])})

\* ------------------------------------------------------------------------
\* Lowering to three-address code
\* ------------------------------------------------------------------------
TACInst(opcode, dest, a, b, imm32) ==
    [opcode |-> opcode, dest |-> dest, a |-> a, b |-> b, imm32 |-> imm32]

WriteFlagsBit == 32768

\* micro_value_to_pos[v] with operator[]: a missing key reads as 0.
PosOf(micro_value_to_pos, v) ==
    IF v \in DOMAIN micro_value_to_pos THEN micro_value_to_pos[v] ELSE 0

LowerInst(micro_inst, idx, free_pos, micro_value_to_pos) ==
    LET opv == MicroOpValue(micro_inst.op)
    IN  CASE micro_inst.op = "GetGPR" ->
                [inst |-> TACInst(opv, free_pos, micro_inst.reg, 0, Zero32),
                 free_pos |-> (free_pos + 1) % W16,
                 map |-> (idx :> free_pos) @@ micro_value_to_pos]
          [] micro_inst.op = "SetGPR" ->
                [inst |-> TACInst(opv, 0, micro_inst.reg,
                                  micro_value_to_pos[micro_inst.args[1]], Zero32),
                 free_pos |-> free_pos, map |-> micro_value_to_pos]
          [] micro_inst.op = "ConstU32" ->
                [inst |-> TACInst(opv, free_pos, 0, 0, micro_inst.value),
                 free_pos |-> (free_pos + 1) % W16,
                 map |-> (idx :> free_pos) @@ micro_value_to_pos]
          [] OTHER ->
                LET has_dest == GetType(micro_inst) # "Void"
                    nargs == Len(micro_inst.args)
                IN  [inst |-> TACInst(
                         IF micro_inst.write_flags # NoFlags THEN opv + WriteFlagsBit ELSE opv,
                         IF has_dest THEN free_pos ELSE 0,
                         IF nargs >= 1 THEN PosOf(micro_value_to_pos, micro_inst.args[1]) ELSE 0,
                         IF nargs >= 2 THEN PosOf(micro_value_to_pos, micro_inst.args[2]) ELSE 0,
                         Zero32),
                     free_pos |-> IF has_dest THEN (free_pos + 1) % W16 ELSE free_pos,
                     map |-> IF has_dest THEN (idx :> free_pos) @@ micro_value_to_pos
                             ELSE micro_value_to_pos]

RECURSIVE LowerLoop(_, _, _, _, _)
LowerLoop(instructions, idx, free_pos, micro_value_to_pos, out) ==
    IF idx > Len(instructions) THEN out
    ELSE LET Step(r) ==
                 LowerLoop(instructions, idx + 1, r.free_pos, r.map, Append(out, r.inst))
         IN  Step(LowerInst(instructions[idx], idx, free_pos, micro_value_to_pos))

\* Lowering of an already translated block.
LowerBlock(micro_block) ==
    [instructions |-> LowerLoop(micro_block.instructions, 1, 16, <<>>, <<>>),
     terminal |-> micro_block.terminal,
     cycles_consumed |-> micro_block.cycles_consumed]

\* TranslateToTAC(desc): [tac, micro, fatal]; micro is the result of
\* Translate the block was lowered from.
TranslateToTAC(mem, desc) ==
    LET Lower(t) == [tac |-> LowerBlock(t.block), micro |-> t, fatal |-> t.fatal]
    IN  Lower(Translate(mem, desc))

\* ------------------------------------------------------------------------
\* CPSR bits
\* ------------------------------------------------------------------------
TBit(cpsr) == Bit16(cpsr[2], 5) = 1
EBit(cpsr) == Bit16(cpsr[2], 9) = 1
NBit(cpsr) == Bit16(cpsr[1], 15) = 1
ZBit(cpsr) == Bit16(cpsr[1], 14) = 1
CBit(cpsr) == Bit16(cpsr[1], 13) = 1
VBit(cpsr) == Bit16(cpsr[1], 12) = 1

B2N(b) == IF b THEN 1 ELSE 0

\* PackCpsr with the mask 0xF0000000 | E | T widened by Q (bit 27).
PackCpsr_ClearQ(cpsr, T, E, N, Z, C, V) ==
    <<(cpsr[1] % 2048) + 32768 * B2N(N) + 16384 * B2N(Z) + 8192 * B2N(C) + 4096 * B2N(V),
      cpsr[2] - 32 * Bit16(cpsr[2], 5) - 512 * Bit16(cpsr[2], 9) + 32 * B2N(T) + 512 * B2N(E)>>

\* Cpsr &= ~(T|E|N|Z|C|V), then each flag or-ed back in.
PackCpsr(cpsr, T, E, N, Z, C, V) ==
    <<(cpsr[1] % 4096) + 32768 * B2N(N) + 16384 * B2N(Z) + 8192 * B2N(C) + 4096 * B2N(V),
      cpsr[2] - 32 * Bit16(cpsr[2], 5) - 512 * Bit16(cpsr[2], 9) + 32 * B2N(T) + 512 * B2N(E)>>

\* ------------------------------------------------------------------------
\* RunTAC
\* ------------------------------------------------------------------------
AddCarry_LessOrEqual(dest, a) == ~Lt32(a, dest)

\* CFlag = regs[dest] < regs[a]
AddCarry(dest, a) == Lt32(dest, a)

RunInst(st, inst) ==
    LET write_flags == inst.opcode >= WriteFlagsBit
        op == inst.opcode % WriteFlagsBit
        regs == st.regs
    IN  IF op = MicroOpValue("GetGPR")
        THEN [st EXCEPT !.regs[inst.dest] = regs[inst.a]]
        ELSE IF op = MicroOpValue("SetGPR")
        THEN [st EXCEPT !.regs[inst.a] = regs[inst.b]]
        ELSE IF op = MicroOpValue("ConstU32")
        THEN [st EXCEPT !.regs[inst.dest] = inst.imm32]
        ELSE IF op = MicroOpValue("Add")
        THEN LET res == Add32(regs[inst.a], regs[inst.b])
                 \* dest may alias an operand only if slots were reused; the
                 \* flag computation reads the registers after the store.
                 regs1 == [regs EXCEPT ![inst.dest] = res]
             IN  IF write_flags
                 THEN [st EXCEPT !.regs = regs1,
                                 !.N = SignBit(regs1[inst.dest]) = 1,
                                 !.Z = regs1[inst.dest] = Zero32,
                                 !.C = AddCarry(regs1[inst.dest], regs1[inst.a]),
                                 !.V = /\ SignBit(regs1[inst.a]) = SignBit(regs1[inst.b])
                                       /\ SignBit(regs1[inst.dest]) # SignBit(regs1[inst.a])]
                 ELSE [st EXCEPT !.regs = regs1]
        ELSE [st EXCEPT !.fatal = TRUE]

RECURSIVE RunInsts(_, _, _)
RunInsts(st, instructions, i) ==
    IF i > Len(instructions) \/ st.fatal THEN st
    ELSE RunInsts(RunInst(st, instructions[i]), instructions, i + 1)

ApplyTerminal_KeepCond(regs, TFlag, EFlag, state_cond, term) ==
    IF term.type \in {"PopRSBHint", "ReturnToDispatch"}
    THEN [regs |-> regs, TFlag |-> TFlag, EFlag |-> EFlag, cond |-> AL, fatal |-> FALSE]
    ELSE IF term.type = "LinkBlock"
    THEN [regs |-> [regs EXCEPT ![15] = term.next.arm_pc], TFlag |-> term.next.TFlag,
          EFlag |-> term.next.EFlag, cond |-> state_cond, fatal |-> FALSE]
    ELSE [regs |-> regs, TFlag |-> TFlag, EFlag |-> EFlag, cond |-> state_cond,
          fatal |-> TRUE]

\* The terminal's effect on r15, T, E and state.cond; fatal for a terminal
\* RunTAC asserts on (boost::get<LinkBlock> throws for LinkBlockFast).
ApplyTerminal(regs, TFlag, EFlag, state_cond, term) ==
    IF term.type \in {"PopRSBHint", "ReturnToDispatch"}
    THEN [regs |-> regs, TFlag |-> TFlag, EFlag |-> EFlag, cond |-> AL, fatal |-> FALSE]
    ELSE IF term.type = "LinkBlock"
    THEN [regs |-> [regs EXCEPT ![15] = term.next.arm_pc], TFlag |-> term.next.TFlag,
          EFlag |-> term.next.EFlag, cond |-> term.next.cond, fatal |-> FALSE]
    ELSE [regs |-> regs, TFlag |-> TFlag, EFlag |-> EFlag, cond |-> state_cond,
          fatal |-> TRUE]

\* cpu_state = [Reg, Cpsr]; state_cond = tac_state.cond.  Slots above 15
\* hold whatever an earlier block left there; a lowered block writes every
\* such slot before it reads it.
RunTAC(cpu_state, state_cond, block) ==
    LET nslots == 16 + Len(block.instructions)
        regs0 == [i \in 0..nslots |-> IF i < 16 THEN cpu_state.Reg[i] ELSE Zero32]
        st0 == [regs |-> regs0, N |-> NBit(cpu_state.Cpsr), Z |-> ZBit(cpu_state.Cpsr),
                C |-> CBit(cpu_state.Cpsr), V |-> VBit(cpu_state.Cpsr), fatal |-> FALSE]
        WriteBack(st, t) ==
            IF st.fatal \/ t.fatal
            THEN [Reg |-> cpu_state.Reg, Cpsr |-> cpu_state.Cpsr, cond |-> state_cond,
                  fatal |-> TRUE]
            ELSE [Reg |-> [i \in 0..15 |-> t.regs[i]],
                  Cpsr |-> PackCpsr(cpu_state.Cpsr, t.TFlag, t.EFlag,
                                    st.N, st.Z, st.C, st.V),
                  cond |-> t.cond, fatal |-> FALSE]
        Terminal(st) ==
            WriteBack(st, ApplyTerminal(st.regs, TBit(cpu_state.Cpsr), EBit(cpu_state.Cpsr),
                                        state_cond, block.terminal))
    IN  Terminal(RunInsts(st0, block.instructions, 1))

\* ------------------------------------------------------------------------
\* Meaning of a MicroBlock, from the per-op comments of enum MicroOp and the
\* descriptions of the terminals
\* ------------------------------------------------------------------------
\* value := $0 + $1 (+ carry): result, carry out and signed overflow
IRAddWithCarry(a, b, carry_in) ==
    LET lo == a[2] + b[2] + carry_in
        hi == a[1] + b[1] + (lo \div W16)
        res == <<hi % W16, lo % W16>>
    IN  [value |-> res, N |-> SignBit(res) = 1, Z |-> res = Zero32, C |-> hi >= W16,
         V |-> SignBit(a) = SignBit(b) /\ SignBit(res) # SignBit(a)]

IRWriteFlags(env, r, write_flags) ==
    [env EXCEPT !.N = IF "N" \in write_flags THEN r.N ELSE @,
                !.Z = IF "Z" \in write_flags THEN r.Z ELSE @,
                !.C = IF "C" \in write_flags THEN r.C ELSE @,
                !.V = IF "V" \in write_flags THEN r.V ELSE @]

IRStep(env, v) ==
    CASE v.op = "ConstU32" -> [env EXCEPT !.vals = Append(@, v.value)]
      [] v.op = "GetGPR" -> [env EXCEPT !.vals = Append(@, env.R[v.reg])]
      [] v.op = "SetGPR" -> [env EXCEPT !.R[v.reg] = env.vals[v.args[1]],
                                        !.vals = Append(@, Zero32)]
      [] v.op = "Add" ->
            LET r == IRAddWithCarry(env.vals[v.args[1]], env.vals[v.args[2]], 0)
            IN  IRWriteFlags([env EXCEPT !.vals = Append(@, r.value)], r, v.write_flags)
      [] v.op = "AddWithCarry" ->
            LET r == IRAddWithCarry(env.vals[v.args[1]], env.vals[v.args[2]], B2N(env.C))
            IN  IRWriteFlags([env EXCEPT !.vals = Append(@, r.value)], r, v.write_flags)
      [] OTHER -> [env EXCEPT !.vals = Append(@, Zero32)]

RECURSIVE IRSteps(_, _, _)
IRSteps(env, instructions, i) ==
    IF i > Len(instructions) THEN env
    ELSE IRSteps(IRStep(env, instructions[i]), instructions, i + 1)

\* The guest state a MicroBlock leaves behind.  interpreted: the terminal
\* hands the guest to the interpreter at terminal.next, whose work is not
\* part of the block.
ExecIR(cpu_state, state_cond, block) ==
    LET env0 == [vals |-> <<>>, R |-> cpu_state.Reg,
                 N |-> NBit(cpu_state.Cpsr), Z |-> ZBit(cpu_state.Cpsr),
                 C |-> CBit(cpu_state.Cpsr), V |-> VBit(cpu_state.Cpsr)]
        env == IRSteps(env0, block.instructions, 1)
        term == block.terminal
        link == term.type \in {"LinkBlock", "LinkBlockFast"}
    IN  [Reg |-> IF link THEN [env.R EXCEPT ![15] = term.next.arm_pc] ELSE env.R,
         T |-> IF link THEN term.next.TFlag ELSE TBit(cpu_state.Cpsr),
         E |-> IF link THEN term.next.EFlag ELSE EBit(cpu_state.Cpsr),
         N |-> env.N, Z |-> env.Z, C |-> env.C, V |-> env.V,
         cond |-> IF link THEN term.next.cond
                  ELSE IF term.type = "Interpret" THEN state_cond ELSE AL,
         interpreted |-> term.type = "Interpret"]

\* The value every instruction of a MicroBlock computes, by position.
IRValues(cpu_state, block) ==
    IRSteps([vals |-> <<>>, R |-> cpu_state.Reg,
             N |-> NBit(cpu_state.Cpsr), Z |-> ZBit(cpu_state.Cpsr),
             C |-> CBit(cpu_state.Cpsr), V |-> VBit(cpu_state.Cpsr)],
            block.instructions, 1).vals

\* ROR(ZeroExtend(imm8, 32), 2 * rotate): the modified immediate of the
\* ARM data-processing encoding
ARMExpandImmRef(imm8, rotate) == Rotr32(<<0, imm8>>, rotate * 2)

\* ------------------------------------------------------------------------
\* Guest words and memory images used by the model
\* ------------------------------------------------------------------------
W_ADDS_R1_R2_3 == <<58002, 4099>>      \* 0xE2921003  adds r1, r2, #3
W_B_SELF == <<60159, 65534>>           \* 0xEAFFFFFE  b .
W_B_PLUS8 == <<59904, 2>>              \* 0xEA000002  b +8 (target pc + 16)
W_ADD_R1_R1_1 == <<57985, 4097>>       \* 0xE2811001  add r1, r1, #1
W_ADDEQ_R3_R1_1 == <<641, 12289>>      \* 0x02813001  addeq r3, r1, #1
W_ADD_R0_R1_ROT == <<57985, 3073>>     \* 0xE2810C01  add r0, r1, #0x100
W_ADD_PC == <<57999, 61440>>           \* 0xE28FF000  add pc, pc, #0
W_BLEQ == <<2816, 0>>                  \* 0x0B000000  bleq
W_UNDEF == <<63487, 65535>>            \* 0xF7FFFFFF  undefined

A_0 == <<0, 0>>
A_4 == <<0, 4>>
A_8 == <<0, 8>>
A_FF8 == <<0, 4088>>
A_FFC == <<0, 4092>>
A_1000 == <<0, 4096>>

MemAddrs == {A_0, A_4, A_8, A_FF8, A_FFC, A_1000}

MkMem(w0, w4, w8, wff8, wffc, w1000) ==
    [a \in MemAddrs |->
        CASE a = A_0 -> w0 [] a = A_4 -> w4 [] a = A_8 -> w8
          [] a = A_FF8 -> wff8 [] a = A_FFC -> wffc [] a = A_1000 -> w1000]

\* Images whose every block ends in LinkBlock (ADD_imm with Rd # PC and B).
LinkPrograms ==
    { MkMem(W_ADDS_R1_R2_3, W_B_SELF, W_B_SELF, W_ADD_R1_R1_1, W_ADD_R1_R1_1, W_B_SELF),
      MkMem(W_ADDEQ_R3_R1_1, W_ADD_R0_R1_ROT, W_B_SELF, W_ADD_R1_R1_1, W_ADDS_R1_R2_3, W_B_SELF) }

\* Images that also hold instructions without a lowering.
OtherPrograms ==
    { MkMem(W_BLEQ, W_ADD_R1_R1_1, W_UNDEF, W_ADD_R1_R1_1, W_B_PLUS8, W_ADD_PC) }

Programs == LinkPrograms \cup OtherPrograms

PatchWords == {W_ADD_R1_R1_1}
PatchAddrs == {A_0}

PCValues == {A_0, A_FF8, <<0, 4090>>}
CpsrValues == {<<0, 48>>}

\* Values the indeterminate tac_state.cond is drawn from: 0 (zero-filled
\* storage), a condition no test word carries, and AL.
InitConds == {EQ, 1, AL}

\* Register file r[i] = i (the translator test's set-up) with r15 = 0, and
\* the same with r2 = 0xFFFFFFFD (SetReg(2, 0xFFFFFFFD)).
IdentityRegs == [i \in 0..15 |-> IF i = 15 THEN Zero32 ELSE <<0, i>>]
InitRegFiles == {IdentityRegs, [IdentityRegs EXCEPT ![2] = <<65535, 65533>>]}

\* ------------------------------------------------------------------------
\* Core::ThreadContext and the registers of cpu_state beside Reg and Cpsr
\* ------------------------------------------------------------------------
FPSCR == 1
FPEXC == 2
VFPSystemRegs == {FPSCR, FPEXC}
CP15Regs == {"CP15_THREAD_UPRW", "CP15_THREAD_URO"}
ExtRegs == 0..63

\* cpu_registers holds r0..r12; sp, lr and pc are fields of their own.
ThreadContext(cpu_registers, sp, lr, pc_, cpsr, fpu_registers, fpscr, fpexc) ==
    [cpu_registers |-> cpu_registers, sp |-> sp, lr |-> lr, pc |-> pc_, cpsr |-> cpsr,
     fpu_registers |-> fpu_registers, fpscr |-> fpscr, fpexc |-> fpexc]

\* memset 0, then cpu_registers[0], pc, sp and cpsr = 0x1F
ResetContext(stack_top, entry_point, arg) ==
    ThreadContext([i \in 0..12 |-> IF i = 0 THEN arg ELSE Zero32], stack_top, Zero32,
                  entry_point, <<0, 31>>, [i \in ExtRegs |-> Zero32], Zero32, Zero32)

SavedContext_LrAsSp(cpu) ==
    ThreadContext([i \in 0..12 |-> cpu.Reg[i]], cpu.Reg[14], cpu.Reg[14], cpu.Reg[15],
                  cpu.Cpsr, cpu.ExtReg, cpu.VFP[FPSCR], cpu.VFP[FPEXC])

\* What SaveContext leaves in ctx.  cpu is [Reg, Cpsr, ExtReg, VFP, CP15].
SavedContext(cpu) ==
    ThreadContext([i \in 0..12 |-> cpu.Reg[i]], cpu.Reg[13], cpu.Reg[14], cpu.Reg[15],
                  cpu.Cpsr, cpu.ExtReg, cpu.VFP[FPSCR], cpu.VFP[FPEXC])

\* What LoadContext leaves in cpu_state.
LoadedState(cpu, ctx) ==
    [Reg |-> [i \in 0..15 |-> IF i < 13 THEN ctx.cpu_registers[i]
                              ELSE IF i = 13 THEN ctx.sp
                              ELSE IF i = 14 THEN ctx.lr ELSE ctx.pc],
     Cpsr |-> ctx.cpsr,
     ExtReg |-> ctx.fpu_registers,
     VFP |-> [cpu.VFP EXCEPT ![FPSCR] = ctx.fpscr, ![FPEXC] = ctx.fpexc],
     CP15 |-> cpu.CP15]

Contexts == {1, 2}
NoSnap == [saved |-> FALSE]
NoCall == [name |-> "none", ctx |-> 0]
NoProbe == [name |-> "none"]
NoArchive == [stream |-> <<>>, file_version |-> 0, saved |-> FALSE]

\* ------------------------------------------------------------------------
\* ARM_MicroInterpreter
\* ------------------------------------------------------------------------
VARIABLES
    mem,               \* guest memory (Memory::Read32)
    Reg,               \* cpu_state.Reg
    Cpsr,              \* cpu_state.Cpsr
    cond,              \* tac_state.cond
    tac_cache,         \* LocationDescriptor -> TACBlock
    reschedule,        \* impl->reschedule
    num_instructions,  \* remaining budget of the running ExecuteInstructions
    pc,                \* position of the emulation thread
    cur,               \* descriptor and block selected by the current iteration
    ir_cache,          \* history: the Translate result each cache entry was lowered from
    ntrans,            \* history: translations per descriptor since the last clear
    pre,               \* history: guest state when the last block was started
    ran,               \* history: a block has completed in this ExecuteInstructions
    runs,              \* number of ExecuteInstructions calls so far
    writes,            \* number of guest memory writes so far
    requested,         \* history: the argument of the running ExecuteInstructions
    applied,           \* history: guest instructions the running call has carried out
    builder,           \* a MicroBuilder a pass is working on, with its block
    edits,             \* number of SetArg and ReplaceUsesWith calls on builder so far
    last_op,           \* history: the last operation on builder and its operands
    ExtReg,            \* cpu_state.ExtReg
    VFP,               \* cpu_state.VFP
    CP15,              \* cpu_state.CP15
    contexts,          \* the Core::ThreadContext objects of the host
    ctx_snap,          \* history: the registers at the last SaveContext into each context
    ctx_last,          \* history: the last register or context call of the host
    ctx_ops,           \* number of register and context calls so far
    probe,             \* the arguments of a RunTAC or Translate call on its own, then its result
    archive,           \* the stream ARM_Interface::save wrote, with its history
    core,              \* page table, timer and id of the ARM_Interface
    resampler,         \* the atomics and the rate state of the AudioCore::Resampler
    producer,          \* the emulation thread in AddSamples: position and locals
    consumer           \* the audio thread in the output callback: position and locals

exec_vars == <<mem, Reg, Cpsr, cond, tac_cache, reschedule, num_instructions, pc, cur,
               ir_cache, ntrans, pre, ran, runs, writes, requested, applied>>

ir_vars == <<builder, edits, last_op>>

ctx_vars == <<ExtReg, VFP, CP15, contexts, ctx_snap, ctx_last, ctx_ops>>

ar_vars == <<archive, core>>

rs_vars == <<resampler, producer, consumer>>

ext_vars == <<ctx_vars, probe, ar_vars, rs_vars>>

vars == <<exec_vars, ir_vars, ext_vars>>

NoBlock == [instructions |-> <<>>, terminal |-> ReturnToDispatch, cycles_consumed |-> 0]
NoCur == [desc |-> LocationDescriptor(Zero32, FALSE, FALSE, AL), block |-> NoBlock,
          hit |-> FALSE]
NoPre == [Reg |-> IdentityRegs, Cpsr |-> Zero32, cond |-> AL]

NoOp == [name |-> "none", value |-> 0, replacement |-> 0]

\* The constants of AudioCore::Resampler.  The doubles of the output callback
\* are held in units of 1 / Unit.
buffer_size == 16384
index_mask == 16383
scale_factor == 16777216
Unit == 10000

ProducerIdle == [pc |-> "idle", calls |-> 0]
ConsumerIdle == [pc |-> "idle", calls |-> 0]

\* Resampler::Resampler
ResamplerConstructed ==
    /\ resampler = [read_index |-> 0, write_index |-> 1, samples_added |-> 0,
                    speed |-> Unit, resample_frac |-> 0]
    /\ producer = ProducerIdle
    /\ consumer = ConsumerIdle

\* tac_state is default-initialised: its cond is indeterminate.
Constructed ==
    /\ Cpsr = <<0, 16>>
    /\ tac_cache = <<>>
    /\ reschedule = FALSE
    /\ num_instructions = 0
    /\ pc = "idle"
    /\ cur = NoCur
    /\ ir_cache = <<>>
    /\ ntrans = <<>>
    /\ pre = NoPre
    /\ ran = FALSE
    /\ runs = 0
    /\ writes = 0
    /\ requested = 0
    /\ applied = 0
    /\ builder = MicroBuilder(LocationDescriptor(Zero32, FALSE, FALSE, AL))
    /\ edits = 0
    /\ last_op = NoOp
    /\ ExtReg = [i \in ExtRegs |-> Zero32]
    /\ VFP = [r \in VFPSystemRegs |-> Zero32]
    /\ CP15 = [r \in CP15Regs |-> Zero32]
    /\ contexts = [c \in Contexts |-> ResetContext(Zero32, A_0, Zero32)]
    /\ ctx_snap = [c \in Contexts |-> NoSnap]
    /\ ctx_last = NoCall
    /\ ctx_ops = 0
    /\ archive = NoArchive
    /\ core = [page_table |-> "page_table_0", timer |-> "timer_0", id |-> 0]
    /\ ResamplerConstructed

Init ==
    /\ mem \in Programs
    /\ Reg \in InitRegFiles
    /\ cond \in InitConds
    /\ Constructed
    /\ probe = NoProbe

\* The descriptor with the E of the reset CPSR instead of the current one.
CurrentDescriptor_ResetE == LocationDescriptor(Reg[15], TBit(Cpsr), FALSE, cond)

CurrentDescriptor == LocationDescriptor(Reg[15], TBit(Cpsr), EBit(Cpsr), cond)

SetPC(addr) ==
    /\ pc = "idle"
    /\ Reg' = [Reg EXCEPT ![15] = addr]
    /\ UNCHANGED <<mem, Cpsr, cond, tac_cache, reschedule, num_instructions, pc, cur,
                   ir_cache, ntrans, pre, ran, runs, writes, requested, builder, edits, last_op, ext_vars, applied>>

SetCPSR(cpsr) ==
    /\ pc = "idle"
    /\ Cpsr' = cpsr
    /\ UNCHANGED <<mem, Reg, cond, tac_cache, reschedule, num_instructions, pc, cur,
                   ir_cache, ntrans, pre, ran, runs, writes, requested, builder, edits, last_op, ext_vars, applied>>

WriteMemory(addr, word) ==
    /\ pc = "idle"
    /\ writes < MaxWrites
    /\ mem[addr] # word
    /\ mem' = [mem EXCEPT ![addr] = word]
    /\ writes' = writes + 1
    /\ UNCHANGED <<Reg, Cpsr, cond, tac_cache, reschedule, num_instructions, pc, cur,
                   ir_cache, ntrans, pre, ran, runs, requested, builder, edits, last_op, ext_vars, applied>>

ClearCache_KeepBlocks ==
    /\ pc = "idle"
    /\ tac_cache # <<>>
    /\ ir_cache' = ir_cache
    /\ ntrans' = <<>>
    /\ UNCHANGED <<mem, Reg, Cpsr, cond, tac_cache, reschedule, num_instructions, pc, cur,
                   pre, ran, runs, writes, requested, builder, edits, last_op, ext_vars, applied>>

\* instruction_cache.clear(); tac_cache.clear()
ClearCache ==
    /\ pc = "idle"
    /\ tac_cache # <<>>
    /\ tac_cache' = <<>>
    /\ ir_cache' = <<>>
    /\ ntrans' = <<>>
    /\ UNCHANGED <<mem, Reg, Cpsr, cond, reschedule, num_instructions, pc, cur,
                   pre, ran, runs, writes, requested, builder, edits, last_op, ext_vars, applied>>

PrepareReschedule ==
    /\ pc # "aborted"
    /\ ~reschedule
    /\ reschedule' = TRUE
    /\ UNCHANGED <<mem, Reg, Cpsr, cond, tac_cache, num_instructions, pc, cur,
                   ir_cache, ntrans, pre, ran, runs, writes, requested, builder, edits, last_op, ext_vars, applied>>

\* ExecuteInstructions, entry: impl->reschedule = false
ExecuteInstructions(n) ==
    /\ pc = "idle"
    /\ runs < MaxRuns
    /\ reschedule' = FALSE
    /\ num_instructions' = n
    /\ pc' = "dispatch"
    /\ ran' = FALSE
    /\ runs' = runs + 1
    /\ requested' = n
    /\ applied' = 0
    /\ UNCHANGED <<mem, Reg, Cpsr, cond, tac_cache, cur, ir_cache, ntrans, pre, writes>>
    /\ UNCHANGED <<ir_vars, ext_vars>>

\* Loop body up to the call of RunTAC: build the descriptor, find or
\* translate, lower and insert.
CacheHit_Never(desc) == FALSE

DescriptorEquals_IgnoreCond(a, b) ==
    <<a.arm_pc, a.TFlag, a.EFlag>> = <<b.arm_pc, b.TFlag, b.EFlag>>

\* LocationDescriptor::operator==
DescriptorEquals(a, b) ==
    <<a.arm_pc, a.TFlag, a.EFlag, a.cond>> = <<b.arm_pc, b.TFlag, b.EFlag, b.cond>>

\* The u64 that LocationDescriptorHash hands to std::hash<u64>, as its bits
\* 63..32, 31..16 and 15..0: arm_pc in the low word, TFlag in bit 32, EFlag
\* in bit 33 and cond from bit 34 up.
LocationDescriptorHash(x) ==
    <<B2N(x.TFlag) + 2 * B2N(x.EFlag) + 4 * x.cond, x.arm_pc[1], x.arm_pc[2]>>

\* tac_cache.find(desc): the keys that compare equal to desc among those in
\* the bucket probed.  Keys with equal hashes share a bucket; the table in
\* which all keys do is the one modelled.
Find(desc) == {k \in DOMAIN tac_cache : DescriptorEquals(k, desc)}

CacheHit(desc) == Find(desc) # {}

Dispatch ==
    /\ pc = "dispatch"
    /\ LET desc == CurrentDescriptor
           Miss(t) ==
               IF t.fatal
               THEN /\ pc' = "aborted"
                    /\ UNCHANGED <<tac_cache, ir_cache, ntrans, cur>>
               ELSE /\ tac_cache' = (desc :> t.tac) @@ tac_cache
                    /\ ir_cache' = (desc :> t.micro) @@ ir_cache
                    /\ ntrans' = (desc :> (IF desc \in DOMAIN ntrans
                                           THEN ntrans[desc] + 1 ELSE 1)) @@ ntrans
                    /\ cur' = [desc |-> desc, block |-> t.tac, hit |-> FALSE]
                    /\ pc' = "run"
       IN  IF CacheHit(desc)
           THEN /\ cur' = [desc |-> desc,
                            block |-> tac_cache[CHOOSE k \in Find(desc) : TRUE],
                            hit |-> TRUE]
                /\ pc' = "run"
                /\ UNCHANGED <<tac_cache, ir_cache, ntrans>>
           ELSE Miss(TranslateToTAC(mem, desc))
    /\ UNCHANGED <<mem, Reg, Cpsr, cond, reschedule, num_instructions, pre, ran,
                   runs, writes, requested, builder, edits, last_op, ext_vars, applied>>

\* RunTAC on the selected block, then num_instructions -= cycles_consumed
RunBlock ==
    /\ pc = "run"
    /\ LET Ran(r) ==
               IF r.fatal
               THEN /\ pc' = "aborted"
                    /\ UNCHANGED <<Reg, Cpsr, cond, num_instructions, pre, ran, applied>>
               ELSE /\ applied' = applied + AppliedCount(ir_cache[cur.desc])
                    /\ Reg' = r.Reg
                    /\ Cpsr' = r.Cpsr
                    /\ cond' = r.cond
                    /\ num_instructions' = num_instructions - cur.block.cycles_consumed
                    /\ pre' = [Reg |-> Reg, Cpsr |-> Cpsr, cond |-> cond]
                    /\ ran' = TRUE
                    /\ pc' = "check"
       IN  Ran(RunTAC([Reg |-> Reg, Cpsr |-> Cpsr], cond, cur.block))
    /\ UNCHANGED <<mem, tac_cache, reschedule, cur, ir_cache, ntrans, runs, writes,
                   requested, builder, edits, last_op, ext_vars>>

\* while (!impl->reschedule && num_instructions > 0)
ContinueLoop_OffByOne(resched, budget) == ~resched /\ budget >= 0

ContinueLoop_IgnoreReschedule(resched, budget) == budget > 0

ContinueLoop_Once(resched, budget) == FALSE

ContinueLoop(resched, budget) == ~resched /\ budget > 0

\* On return the loop's locals go out of scope.
LoopCheck ==
    /\ pc = "check"
    /\ IF ContinueLoop(reschedule, num_instructions)
       THEN /\ pc' = "dispatch"
            /\ UNCHANGED <<num_instructions, cur, pre, ran, requested, applied>>
       ELSE /\ pc' = "idle"
            /\ num_instructions' = 0
            /\ requested' = 0
            /\ applied' = 0
            /\ cur' = NoCur
            /\ pre' = NoPre
            /\ ran' = FALSE
    /\ UNCHANGED <<mem, Reg, Cpsr, cond, tac_cache, reschedule, ir_cache, ntrans,
                   runs, writes, builder, edits, last_op, ext_vars>>

Next ==
    \/ \E a \in PCValues : SetPC(a)
    \/ \E c \in CpsrValues : SetCPSR(c)
    \/ \E a \in PatchAddrs, w \in PatchWords : WriteMemory(a, w)
    \/ ClearCache
    \/ PrepareReschedule
    \/ \E n \in 1..MaxBudget : ExecuteInstructions(n)
    \/ Dispatch
    \/ RunBlock
    \/ LoopCheck

Spec == Init /\ [][Next]_vars

\* ------------------------------------------------------------------------
\* The interface with InvalidateCacheRange(start_address, length): every
\* entry whose location's arm_pc lies in [start_address, start_address +
\* length) leaves the block cache, whatever its TFlag, EFlag and cond.
\* ------------------------------------------------------------------------
InRange(addr, start_address, length) ==
    /\ ~Lt32(addr, start_address)
    /\ Lt32(addr, Add32(start_address, length))

\* The function f without the keys whose arm_pc lies in the range.
Outside(f, start_address, length) ==
    [k \in {d \in DOMAIN f : ~InRange(d.arm_pc, start_address, length)} |-> f[k]]

InvalidateRanges == {<<A_0, <<0, 4>>>>, <<A_FF8, <<0, 8>>>>}

InvalidateCacheRange_OnlyAL(start_address, length) ==
    /\ pc = "idle"
    /\ \E d \in DOMAIN tac_cache : InRange(d.arm_pc, start_address, length)
    /\ tac_cache' = [k \in {d \in DOMAIN tac_cache :
                                ~(InRange(d.arm_pc, start_address, length) /\ d.cond = AL)}
                        |-> tac_cache[k]]
    /\ ir_cache' = Outside(ir_cache, start_address, length)
    /\ ntrans' = Outside(ntrans, start_address, length)
    /\ UNCHANGED <<mem, Reg, Cpsr, cond, reschedule, num_instructions, pc, cur,
                   pre, ran, runs, writes, requested, builder, edits, last_op, ext_vars, applied>>

InvalidateCacheRange(start_address, length) ==
    /\ pc = "idle"
    /\ \E d \in DOMAIN tac_cache : InRange(d.arm_pc, start_address, length)
    /\ tac_cache' = Outside(tac_cache, start_address, length)
    /\ ir_cache' = Outside(ir_cache, start_address, length)
    /\ ntrans' = Outside(ntrans, start_address, length)
    /\ UNCHANGED <<mem, Reg, Cpsr, cond, reschedule, num_instructions, pc, cur,
                   pre, ran, runs, writes, requested, builder, edits, last_op, ext_vars, applied>>

\* ------------------------------------------------------------------------
\* A host that loads one of the LinkPrograms images, never writes guest
\* memory and never leaves ARM state; the emulation thread keeps stepping
\* while it is inside ExecuteInstructions.
\* ------------------------------------------------------------------------
RunInit ==
    /\ Init
    /\ mem \in LinkPrograms

RunNext ==
    \/ \E a \in PCValues : SetPC(a)
    \/ ClearCache
    \/ PrepareReschedule
    \/ \E n \in 1..MaxBudget : ExecuteInstructions(n)
    \/ Dispatch
    \/ RunBlock
    \/ LoopCheck

\* The emulation thread moves on: inside ExecuteInstructions exactly one of
\* Dispatch, RunBlock and LoopCheck is enabled, and each of them changes pc.
Advance ==
    /\ pc \in {"dispatch", "run", "check"}
    /\ pc' \in {"dispatch", "run", "check", "idle", "aborted"}
    /\ pc' # pc

SpecRun ==
    /\ RunInit
    /\ [][RunNext]_vars
    /\ WF_pc(Advance)

\* The same host, with InvalidateCacheRange among its calls.
NextInvalidate ==
    \/ RunNext
    \/ \E r \in InvalidateRanges : InvalidateCacheRange(r[1], r[2])

SpecInvalidate == RunInit /\ [][NextInvalidate]_vars

\* ------------------------------------------------------------------------
\* The register interface and the thread contexts.  The host calls them
\* between two ExecuteInstructions.
\* ------------------------------------------------------------------------
CpuState == [Reg |-> Reg, Cpsr |-> Cpsr, ExtReg |-> ExtReg, VFP |-> VFP, CP15 |-> CP15]

Called(name, c) ==
    /\ ctx_last' = [name |-> name, ctx |-> c]
    /\ ctx_ops' = ctx_ops + 1

\* ARM_MicroInterpreter::SetReg; index 15 goes through SetPC
SetRegister(index, value) ==
    /\ pc = "idle"
    /\ ctx_ops < MaxCtxOps
    /\ Reg' = [Reg EXCEPT ![index] = value]
    /\ Called("SetReg", 0)
    /\ UNCHANGED <<mem, Cpsr, cond, tac_cache, reschedule, num_instructions, pc, cur,
                   ir_cache, ntrans, pre, ran, runs, writes, requested, applied, ir_vars,
                   ExtReg, VFP, CP15, contexts, ctx_snap, probe, ar_vars, rs_vars>>

SetVFPReg(index, value) ==
    /\ pc = "idle"
    /\ ctx_ops < MaxCtxOps
    /\ ExtReg' = [ExtReg EXCEPT ![index] = value]
    /\ Called("SetVFPReg", 0)
    /\ UNCHANGED <<exec_vars, ir_vars, VFP, CP15, contexts, ctx_snap, probe, ar_vars, rs_vars>>

SetVFPSystemReg(reg, value) ==
    /\ pc = "idle"
    /\ ctx_ops < MaxCtxOps
    /\ VFP' = [VFP EXCEPT ![reg] = value]
    /\ Called("SetVFPSystemReg", 0)
    /\ UNCHANGED <<exec_vars, ir_vars, ExtReg, CP15, contexts, ctx_snap, probe, ar_vars, rs_vars>>

SetCP15Register(reg, value) ==
    /\ pc = "idle"
    /\ ctx_ops < MaxCtxOps
    /\ CP15' = [CP15 EXCEPT ![reg] = value]
    /\ Called("SetCP15Register", 0)
    /\ UNCHANGED <<exec_vars, ir_vars, ExtReg, VFP, contexts, ctx_snap, probe, ar_vars, rs_vars>>

SaveContext(c) ==
    /\ pc = "idle"
    /\ ctx_ops < MaxCtxOps
    /\ contexts' = [contexts EXCEPT ![c] = SavedContext(CpuState)]
    /\ ctx_snap' = [ctx_snap EXCEPT ![c] = [saved |-> TRUE, cpu |-> CpuState]]
    /\ Called("SaveContext", c)
    /\ UNCHANGED <<exec_vars, ir_vars, ExtReg, VFP, CP15, probe, ar_vars, rs_vars>>

LoadContext(c) ==
    /\ pc = "idle"
    /\ ctx_ops < MaxCtxOps
    /\ LET Loaded(cpu) ==
               /\ Reg' = cpu.Reg
               /\ Cpsr' = cpu.Cpsr
               /\ ExtReg' = cpu.ExtReg
               /\ VFP' = cpu.VFP
               /\ CP15' = cpu.CP15
       IN  Loaded(LoadedState(CpuState, contexts[c]))
    /\ Called("LoadContext", c)
    /\ UNCHANGED <<mem, cond, tac_cache, reschedule, num_instructions, pc, cur,
                   ir_cache, ntrans, pre, ran, runs, writes, requested, applied, ir_vars,
                   contexts, ctx_snap, probe, ar_vars, rs_vars>>

CtxGPRs == {13}
CtxExtRegs == {63}
CtxValues == {<<32768, 7>>}

\* Two threads of a guest that runs the first of the LinkPrograms.
CtxInit ==
    /\ Init
    /\ mem = MkMem(W_ADDS_R1_R2_3, W_B_SELF, W_B_SELF,
                   W_ADD_R1_R1_1, W_ADD_R1_R1_1, W_B_SELF)
    /\ Reg = [IdentityRegs EXCEPT ![2] = <<65535, 65533>>]
    /\ cond = AL

CtxNext ==
    \/ \E i \in CtxGPRs, v \in CtxValues : SetRegister(i, v)
    \/ \E i \in CtxExtRegs, v \in CtxValues : SetVFPReg(i, v)
    \/ \E r \in VFPSystemRegs, v \in CtxValues : SetVFPSystemReg(r, v)
    \/ \E r \in CP15Regs, v \in CtxValues : SetCP15Register(r, v)
    \/ \E c \in Contexts : SaveContext(c)
    \/ \E c \in Contexts : LoadContext(c)
    \/ ExecuteInstructions(1)
    \/ Dispatch
    \/ RunBlock
    \/ LoopCheck

SpecCtx == CtxInit /\ [][CtxNext]_vars

\* ------------------------------------------------------------------------
\* A host that redirects the guest between two ExecuteInstructions: SetPC,
\* SetCPSR, SaveContext and LoadContext on a guest that spins in beq . at 0
\* and has ADD (immediate) up to the page end.
\* ------------------------------------------------------------------------
W_BEQ_SELF == <<2815, 65534>>          \* 0x0AFFFFFE  beq .

RedirectTargets == {A_FF8}
\* 0x00000210: E set, ARM state, user mode; 0x00000030: Thumb state
RedirectCpsrs == {<<0, 528>>, <<0, 48>>}
RedirectContexts == {1}

RedirectInit ==
    /\ mem = MkMem(W_BEQ_SELF, W_B_SELF, W_B_SELF, W_ADD_R1_R1_1, W_ADDS_R1_R2_3, W_B_SELF)
    /\ Reg = IdentityRegs
    /\ cond \in InitConds
    /\ Constructed
    /\ probe = NoProbe

RedirectNext ==
    \/ \E a \in RedirectTargets : SetRegister(15, a)
    \/ \E c \in RedirectCpsrs : SetCPSR(c)
    \/ \E c \in RedirectContexts : SaveContext(c)
    \/ \E c \in RedirectContexts : LoadContext(c)
    \/ \E n \in 1..MaxBudget : ExecuteInstructions(n)
    \/ Dispatch
    \/ RunBlock
    \/ LoopCheck

SpecRedirect == RedirectInit /\ [][RedirectNext]_vars

\* ------------------------------------------------------------------------
\* RunTAC on its own: a block r3 := r1 + r2 with each terminal, lowered as
\* Translate's blocks are, and run on a guest state of its own.
\* ------------------------------------------------------------------------
U32Values == {Zero32, <<0, 1>>, <<0, 65535>>, <<1, 0>>, <<32767, 65535>>, <<32768, 0>>,
              <<65535, 65535>>}

\* 0xF90F03F0: N, Z, C, V, Q, J, GE, E, A, I, F and T set
ProbeCpsrs == {<<0, 16>>, <<61440, 16>>, <<16384, 16>>, <<63759, 1008>>}

ProbeTerminals ==
    LET next1 == LocationDescriptor(A_4, FALSE, FALSE, AL)
        next2 == LocationDescriptor(A_8, FALSE, TRUE, EQ)
    IN  {ReturnToDispatch, PopRSBHint, LinkBlock(next1), LinkBlock(next2),
         LinkBlockFast(next2),
         If(EQ, LinkBlock(next1), LinkBlock(next2)),
         If(1, If(2, LinkBlock(next1), ReturnToDispatch), LinkBlock(next2))}

\* GetGPR r1; GetGPR r2; Add; SetGPR r3
AddBlock(S, term) ==
    LET Store(ir) == SetTerm(SetGPR(ir, 3, LastValue(ir)), term)
        Sum(ir) == Store(Inst(ir, "Add", <<1, 2>>, IF S THEN NZCV ELSE NoFlags))
        Operands(ir) == Sum(GetGPR(GetGPR(ir, 1), 2))
    IN  LowerBlock(Operands(MicroBuilder(LocationDescriptor(A_0, FALSE, FALSE, AL))).block)

ProbeInputs ==
    {[name |-> "RunTAC", a |-> a, b |-> b, S |-> S,
      cpu_state |-> [Reg |-> [IdentityRegs EXCEPT ![1] = a, ![2] = b], Cpsr |-> cpsr],
      cond |-> AL, block |-> AddBlock(S, term)] :
        a \in U32Values, b \in U32Values, S \in BOOLEAN, cpsr \in ProbeCpsrs,
        term \in ProbeTerminals}

TACInit ==
    /\ mem \in LinkPrograms
    /\ Reg = IdentityRegs
    /\ cond = AL
    /\ Constructed
    /\ probe \in ProbeInputs

ProbeRunTAC ==
    /\ probe.name = "RunTAC"
    /\ probe' = [name |-> "ran", input |-> probe,
                 out |-> RunTAC(probe.cpu_state, probe.cond, probe.block)]
    /\ UNCHANGED <<exec_vars, ir_vars, ctx_vars, ar_vars, rs_vars>>

TACNext == ProbeRunTAC

SpecTAC == TACInit /\ [][TACNext]_vars

\* ------------------------------------------------------------------------
\* Translate on its own: one block translated from a guest memory image and
\* a start location of its own.
\* ------------------------------------------------------------------------
W_B_BACK16 == <<60159, 65532>>         \* 0xEAFFFFFC  b -8 (target pc - 8)
W_B_MAXFWD == <<60031, 65535>>         \* 0xEA7FFFFF  b, imm24 = 0x7FFFFF
W_B_MINBACK == <<60032, 0>>            \* 0xEA800000  b, imm24 = 0x800000
W_BEQ_PLUS8 == <<2560, 2>>             \* 0x0A000002  beq +8

BranchWords == {W_B_PLUS8, W_B_SELF, W_B_BACK16, W_B_MAXFWD, W_B_MINBACK, W_BEQ_PLUS8}

FirstWords == BranchWords \cup {W_ADD_R1_R1_1, W_ADDS_R1_R2_3, W_ADDEQ_R3_R1_1, W_UNDEF,
                                 W_ADD_PC}

SecondWords == BranchWords \cup {W_BLEQ, W_ADD_R0_R1_ROT}

TranslateLocations ==
    {LocationDescriptor(a, FALSE, E, c) :
        a \in {A_0, A_4, A_FFC, <<0, 2>>}, E \in BOOLEAN, c \in {AL, EQ}}

TranslateInputs ==
    {[name |-> "Translate",
      mem |-> MkMem(w0, w4, W_B_SELF, W_ADD_R1_R1_1, W_B_BACK16, W_B_SELF),
      location |-> l] :
        w0 \in FirstWords, w4 \in SecondWords, l \in TranslateLocations}

\* Images with ADD (immediate) up to and beyond the end of the first page,
\* translated from its last two words and from a cursor that is not word
\* aligned.
PageEndInputs ==
    {[name |-> "Translate",
      mem |-> MkMem(W_B_SELF, W_B_SELF, W_B_SELF, wff8, wffc, W_ADD_R1_R1_1),
      location |-> LocationDescriptor(a, FALSE, FALSE, AL)] :
        wff8 \in {W_ADD_R1_R1_1, W_ADDS_R1_R2_3}, wffc \in {W_ADD_R1_R1_1, W_ADDS_R1_R2_3},
        a \in {A_FF8, A_FFC, <<0, 4090>>}}

TranslateInit ==
    /\ mem \in LinkPrograms
    /\ Reg = IdentityRegs
    /\ cond = AL
    /\ Constructed
    /\ probe \in TranslateInputs \cup PageEndInputs

ProbeTranslate ==
    /\ probe.name = "Translate"
    /\ probe' = [name |-> "translated", input |-> probe,
                 out |-> Translate(probe.mem, probe.location)]
    /\ UNCHANGED <<exec_vars, ir_vars, ctx_vars, ar_vars, rs_vars>>

TranslateNext == ProbeTranslate

SpecTranslate == TranslateInit /\ [][TranslateNext]_vars

\* ------------------------------------------------------------------------
\* ARM_Interface::save and ARM_Interface::load.  The stream is the sequence
\* of the values written, in the order of the ar << calls; load takes them
\* by position, in the order of its ar >> calls.
\* ------------------------------------------------------------------------
PageTables == {"page_table_0", "page_table_1"}

\* Memory().SerializePageTable / UnserializePageTable: a handle's stable
\* index and back.
SerializePageTable(page_table) == IF page_table = "page_table_0" THEN 0 ELSE 1

UnserializePageTable(index) == IF index = 0 THEN "page_table_0" ELSE "page_table_1"

\* vfp_reg_count
VfpRegCount(file_version) == IF file_version = 0 THEN 32 ELSE 64

SaveStream(co, cpu, file_version) ==
    <<SerializePageTable(co.page_table), co.timer, co.id>>
    \o [i \in 1..15 |-> cpu.Reg[i - 1]]
    \o <<cpu.Reg[15], cpu.Cpsr>>
    \o [i \in 1..VfpRegCount(file_version) |-> cpu.ExtReg[i - 1]]
    \o <<cpu.VFP[FPSCR], cpu.VFP[FPEXC],
         cpu.CP15["CP15_THREAD_UPRW"], cpu.CP15["CP15_THREAD_URO"]>>

LoadStream_FpexcFirst(stream, file_version, cpu) ==
    LET n == VfpRegCount(file_version)
    IN  [core |-> [page_table |-> UnserializePageTable(stream[1]),
                   timer |-> stream[2], id |-> stream[3]],
         cpu |-> [Reg |-> [i \in 0..15 |-> IF i < 15 THEN stream[4 + i] ELSE stream[19]],
                  Cpsr |-> stream[20],
                  ExtReg |-> [i \in ExtRegs |-> IF i < n THEN stream[21 + i]
                                                ELSE cpu.ExtReg[i]],
                  VFP |-> [cpu.VFP EXCEPT ![FPEXC] = stream[21 + n],
                                          ![FPSCR] = stream[22 + n]],
                  CP15 |-> [cpu.CP15 EXCEPT !["CP15_THREAD_UPRW"] = stream[23 + n],
                                            !["CP15_THREAD_URO"] = stream[24 + n]]]]

\* The k-th ar >> of load takes stream[k]: page-table index, timer, id,
\* r0..r14, pc, cpsr, the VFP registers, FPSCR, FPEXC, THREAD_UPRW,
\* THREAD_URO.
LoadStream(stream, file_version, cpu) ==
    LET n == VfpRegCount(file_version)
    IN  [core |-> [page_table |-> UnserializePageTable(stream[1]),
                   timer |-> stream[2], id |-> stream[3]],
         cpu |-> [Reg |-> [i \in 0..15 |-> IF i < 15 THEN stream[4 + i] ELSE stream[19]],
                  Cpsr |-> stream[20],
                  ExtReg |-> [i \in ExtRegs |-> IF i < n THEN stream[21 + i]
                                                ELSE cpu.ExtReg[i]],
                  VFP |-> [cpu.VFP EXCEPT ![FPSCR] = stream[21 + n],
                                          ![FPEXC] = stream[22 + n]],
                  CP15 |-> [cpu.CP15 EXCEPT !["CP15_THREAD_UPRW"] = stream[23 + n],
                                            !["CP15_THREAD_URO"] = stream[24 + n]]]]

SetPageTable(page_table) ==
    /\ pc = "idle"
    /\ ctx_ops < MaxCtxOps
    /\ core.page_table # page_table
    /\ core' = [core EXCEPT !.page_table = page_table]
    /\ Called("SetPageTable", 0)
    /\ UNCHANGED <<exec_vars, ir_vars, ExtReg, VFP, CP15, contexts, ctx_snap, probe, archive, rs_vars>>

\* ARM_Interface::save; cpu, core and runs are history.
ArchiveSave(file_version) ==
    /\ pc = "idle"
    /\ ctx_ops < MaxCtxOps
    /\ archive' = [stream |-> SaveStream(core, CpuState, file_version),
                   file_version |-> file_version, saved |-> TRUE,
                   cpu |-> CpuState, core |-> core, runs |-> runs]
    /\ Called("save", file_version)
    /\ UNCHANGED <<exec_vars, ir_vars, ExtReg, VFP, CP15, contexts, ctx_snap, probe, core, rs_vars>>

\* ARM_Interface::load on the stream of the last save, with the version the
\* stream was written under: PurgeState(), which drops the translated
\* blocks, then the reads.
ArchiveLoad(file_version) ==
    /\ pc = "idle"
    /\ ctx_ops < MaxCtxOps
    /\ archive.saved
    /\ archive.file_version = file_version
    /\ tac_cache' = <<>>
    /\ ir_cache' = <<>>
    /\ ntrans' = <<>>
    /\ LET Loaded(r) ==
               /\ core' = r.core
               /\ Reg' = r.cpu.Reg
               /\ Cpsr' = r.cpu.Cpsr
               /\ ExtReg' = r.cpu.ExtReg
               /\ VFP' = r.cpu.VFP
               /\ CP15' = r.cpu.CP15
       IN  Loaded(LoadStream(archive.stream, file_version, CpuState))
    /\ Called("load", file_version)
    /\ UNCHANGED <<mem, cond, reschedule, num_instructions, pc, cur, pre, ran, runs,
                   writes, requested, applied, ir_vars, contexts, ctx_snap, probe, archive, rs_vars>>

FileVersions == {0, 1}
ArchiveExtRegs == {31, 63}
ArchiveValues == {<<32768, 7>>, <<0, 9>>}

ArchiveNext ==
    \/ \E i \in CtxGPRs, v \in CtxValues : SetRegister(i, v)
    \/ \E i \in ArchiveExtRegs, v \in CtxValues : SetVFPReg(i, v)
    \/ \E r \in VFPSystemRegs, v \in ArchiveValues : SetVFPSystemReg(r, v)
    \/ \E r \in CP15Regs, v \in CtxValues : SetCP15Register(r, v)
    \/ \E h \in PageTables : SetPageTable(h)
    \/ \E v \in FileVersions : ArchiveSave(v)
    \/ \E v \in FileVersions : ArchiveLoad(v)
    \/ ExecuteInstructions(1)
    \/ Dispatch
    \/ RunBlock
    \/ LoopCheck

SpecArchive == CtxInit /\ [][ArchiveNext]_vars

\* ------------------------------------------------------------------------
\* ThreadContext::save and ThreadContext::load.  A context is what its
\* getters return: cpu[0..15], fpu[0..63], cpsr, fpscr, fpexc.
\* ------------------------------------------------------------------------
\* fpu_reg_count
FpuRegCount(file_version) == IF file_version = 0 THEN 16 ELSE 64

ThreadContextSave(ctx, file_version) ==
    [i \in 1..16 |-> ctx.cpu[i - 1]]
    \o [i \in 1..FpuRegCount(file_version) |-> ctx.fpu[i - 1]]
    \o <<ctx.cpsr, ctx.fpscr, ctx.fpexc>>

ThreadContextLoad_CpsrFirst(stream, file_version, ctx) ==
    LET n == FpuRegCount(file_version)
    IN  [cpu |-> [i \in 0..15 |-> stream[1 + i]],
         fpu |-> [i \in ExtRegs |-> IF i < n THEN stream[18 + i] ELSE ctx.fpu[i]],
         cpsr |-> stream[17],
         fpscr |-> stream[18 + n],
         fpexc |-> stream[19 + n]]

\* The k-th ar >> of load takes stream[k]: r0..r15, the FPU registers, cpsr,
\* fpscr, fpexc.  ctx is the context loaded into.
ThreadContextLoad(stream, file_version, ctx) ==
    LET n == FpuRegCount(file_version)
    IN  [cpu |-> [i \in 0..15 |-> stream[1 + i]],
         fpu |-> [i \in ExtRegs |-> IF i < n THEN stream[17 + i] ELSE ctx.fpu[i]],
         cpsr |-> stream[17 + n],
         fpscr |-> stream[18 + n],
         fpexc |-> stream[19 + n]]

ContextCpus == {IdentityRegs, [IdentityRegs EXCEPT ![15] = A_FF8, ![14] = <<32768, 7>>]}

ContextFpus ==
    {[i \in ExtRegs |-> Zero32], [i \in ExtRegs |-> <<1, i>>],
     [i \in ExtRegs |-> IF i \in {0, 15, 16, 63} THEN <<2, i>> ELSE Zero32]}

ContextStatus == {<<<<0, 16>>, <<0, 1>>, <<0, 2>>>>, <<<<24576, 31>>, <<960, 0>>, <<16384, 0>>>>}

ThreadContexts ==
    {[cpu |-> c, fpu |-> f, cpsr |-> s[1], fpscr |-> s[2], fpexc |-> s[3]] :
        c \in ContextCpus, f \in ContextFpus, s \in ContextStatus}

ContextInputs ==
    {[name |-> "ThreadContext", ctx |-> c, into |-> d, file_version |-> v] :
        c \in ThreadContexts, v \in FileVersions,
        d \in {x \in ThreadContexts : x.cpu = IdentityRegs /\ x.cpsr = <<0, 16>>}}

ContextInit ==
    /\ mem \in LinkPrograms
    /\ Reg = IdentityRegs
    /\ cond = AL
    /\ Constructed
    /\ probe \in ContextInputs

ProbeThreadContext ==
    /\ probe.name = "ThreadContext"
    /\ LET Saved(stream) ==
               probe' = [name |-> "loaded", input |-> probe, stream |-> stream,
                         out |-> ThreadContextLoad(stream, probe.file_version, probe.into)]
       IN  Saved(ThreadContextSave(probe.ctx, probe.file_version))
    /\ UNCHANGED <<exec_vars, ir_vars, ctx_vars, ar_vars, rs_vars>>

ContextNext == ProbeThreadContext

SpecThreadContext == ContextInit /\ [][ContextNext]_vars

\* ------------------------------------------------------------------------
\* AudioCore::Resampler: the FIFO between the emulation thread, which calls
\* AddSamples, and the audio thread, which calls the output callback.  Each
\* access to an atomic is a step of its own; what a thread computes on its
\* locals in between belongs to the step of the access before it.  The
\* output rate is the one the object is constructed with,
\* native_sample_rate, so that output_rate / native_sample_rate is 1.
\* ------------------------------------------------------------------------
AddFrames == {1, buffer_size}
CallbackFrames == {1, 4096}

Min(a, b) == IF a < b THEN a ELSE b
Max(a, b) == IF a < b THEN b ELSE a

\* std::min(num_frames, ((limit_index - index) & index_mask) - 1) in size_t:
\* when the masked difference is 0 the subtraction wraps to SIZE_MAX and
\* nothing is clipped.
ClipFrames(num_frames, limit_index, index) ==
    LET masked == (limit_index - index) % (index_mask + 1)
    IN  IF masked = 0 THEN num_frames ELSE Min(num_frames, masked - 1)

\* buffer_size - index & index_mask, which is (buffer_size - index) & index_mask
Overflow(index) == (buffer_size - index) % (index_mask + 1)

\* The two memcpy calls of AddSamples as [first frame, number of frames] in
\* the buffer; frames is num_frames after the clipping.
Copies(index, frames) ==
    IF Overflow(index) < frames
    THEN <<[at |-> index % (index_mask + 1), len |-> Overflow(index)],
           [at |-> 0, len |-> frames - Overflow(index)]>>
    ELSE <<[at |-> index % (index_mask + 1), len |-> frames]>>

\* speed += 0.0003 * (current_ratio - speed), on doubles held in units of
\* 1 / Unit and cut off below that
SpeedAfter(speed_, moo, num_frames) ==
    speed_ + (3 * ((moo * Unit) \div num_frames - speed_)) \div Unit

\* adj, in units of 1 / Unit
Adj(buffer_contents) ==
    IF 2 * buffer_contents >= buffer_size THEN Unit
    ELSE Unit + (13 * ((buffer_contents * Unit) \div buffer_size - Unit \div 2)) \div 10

\* factor with output_rate = native_sample_rate, in units of 1 / Unit
Factor(buffer_contents, speed_) ==
    Max((Adj(buffer_contents) * speed_) \div Unit, Unit \div 100)

\* static_cast<u64>(factor * scale_factor)
StepSize(factor) ==
    factor * (scale_factor \div Unit) + (factor * (scale_factor % Unit)) \div Unit

\* One pass through the body of the interpolation loop if its condition
\* holds, and nothing otherwise; l is [in, out, resample_frac].  With
\* buffer_contents = 0 the bound buffer_contents - 1 wraps to SIZE_MAX.
Interpolate(l, num_frames, buffer_contents, step_size) ==
    IF l.out < num_frames /\ (buffer_contents = 0 \/ l.in < buffer_contents - 1)
    THEN [in |-> l.in + (l.resample_frac + step_size) \div scale_factor,
          out |-> l.out + 1,
          resample_frac |-> (l.resample_frac + step_size) % scale_factor]
    ELSE l

\* n passes in a row.  The loop condition, once false, stays false, so
\* num_frames passes are the whole loop.
RECURSIVE InterpolateTimes(_, _, _, _, _)
InterpolateTimes(l, n, num_frames, buffer_contents, step_size) ==
    IF n = 0 THEN l
    ELSE IF n = 1 THEN Interpolate(l, num_frames, buffer_contents, step_size)
    ELSE LET half == InterpolateTimes(l, n \div 2, num_frames, buffer_contents, step_size)
         IN  IF half.out = num_frames THEN half
             ELSE InterpolateTimes(half, n - n \div 2, num_frames, buffer_contents, step_size)

\* AddSamples(samples, num_frames): limit_index = read_index.load()
AddSamplesBegin(num_frames) ==
    /\ producer.pc = "idle"
    /\ producer.calls < MaxAdds
    /\ producer' = [pc |-> "index", calls |-> producer.calls + 1,
                    num_frames |-> num_frames, limit_index |-> resampler.read_index]
    /\ UNCHANGED <<resampler, consumer>>
    /\ UNCHANGED <<exec_vars, ir_vars, ctx_vars, probe, ar_vars>>

\* index = write_index.load(); the clipping; the copies
AddSamplesCopy ==
    /\ producer.pc = "index"
    /\ LET index == resampler.write_index
           frames == ClipFrames(producer.num_frames, producer.limit_index, index)
       IN  producer' = [pc |-> "publish", calls |-> producer.calls,
                        num_frames |-> frames, index |-> index,
                        copies |-> Copies(index, frames)]
    /\ UNCHANGED <<resampler, consumer>>
    /\ UNCHANGED <<exec_vars, ir_vars, ctx_vars, probe, ar_vars>>

\* write_index.fetch_add(num_frames)
AddSamplesPublish ==
    /\ producer.pc = "publish"
    /\ resampler' = [resampler EXCEPT !.write_index = @ + producer.num_frames]
    /\ producer' = [pc |-> "count", calls |-> producer.calls,
                    num_frames |-> producer.num_frames]
    /\ UNCHANGED consumer
    /\ UNCHANGED <<exec_vars, ir_vars, ctx_vars, probe, ar_vars>>

\* samples_added.fetch_add(num_frames)
AddSamplesCount ==
    /\ producer.pc = "count"
    /\ resampler' = [resampler EXCEPT !.samples_added = @ + producer.num_frames]
    /\ producer' = [pc |-> "idle", calls |-> producer.calls]
    /\ UNCHANGED consumer
    /\ UNCHANGED <<exec_vars, ir_vars, ctx_vars, probe, ar_vars>>

\* The output callback (samples, num_frames): moo = samples_added.load()
OutputCallbackBegin(num_frames) ==
    /\ consumer.pc = "idle"
    /\ consumer.calls < MaxCallbacks
    /\ consumer' = [pc |-> "sub", calls |-> consumer.calls + 1,
                    num_frames |-> num_frames, moo |-> resampler.samples_added]
    /\ UNCHANGED <<resampler, producer>>
    /\ UNCHANGED <<exec_vars, ir_vars, ctx_vars, probe, ar_vars>>

\* samples_added.fetch_sub(moo); speed += 0.0003 * (current_ratio - speed)
OutputCallbackSpeed ==
    /\ consumer.pc = "sub"
    /\ resampler' = [resampler EXCEPT
                        !.samples_added = @ - consumer.moo,
                        !.speed = SpeedAfter(@, consumer.moo, consumer.num_frames)]
    /\ consumer' = [pc |-> "limit", calls |-> consumer.calls,
                    num_frames |-> consumer.num_frames]
    /\ UNCHANGED producer
    /\ UNCHANGED <<exec_vars, ir_vars, ctx_vars, probe, ar_vars>>

\* limit_index = write_index.load()
OutputCallbackLimit ==
    /\ consumer.pc = "limit"
    /\ consumer' = [pc |-> "index", calls |-> consumer.calls,
                    num_frames |-> consumer.num_frames,
                    limit_index |-> resampler.write_index]
    /\ UNCHANGED <<resampler, producer>>
    /\ UNCHANGED <<exec_vars, ir_vars, ctx_vars, probe, ar_vars>>

\* index = read_index.load(); buffer_contents, factor and step_size; the
\* interpolation loop
OutputCallbackResample ==
    /\ consumer.pc = "index"
    /\ LET buffer_contents == consumer.limit_index - resampler.read_index
           step_size == StepSize(Factor(buffer_contents, resampler.speed))
           Looped(l) ==
               /\ resampler' = [resampler EXCEPT !.resample_frac = l.resample_frac]
               /\ consumer' = [pc |-> "advance", calls |-> consumer.calls,
                               buffer_contents |-> buffer_contents, in |-> l.in,
                               out |-> l.out]
       IN  Looped(InterpolateTimes([in |-> 0, out |-> 0,
                                    resample_frac |-> resampler.resample_frac],
                                   consumer.num_frames, consumer.num_frames,
                                   buffer_contents, step_size))
    /\ UNCHANGED producer
    /\ UNCHANGED <<exec_vars, ir_vars, ctx_vars, probe, ar_vars>>

\* read_index.fetch_add(std::min(in, buffer_contents))
OutputCallbackAdvance ==
    /\ consumer.pc = "advance"
    /\ resampler' = [resampler EXCEPT
                        !.read_index = @ + Min(consumer.in, consumer.buffer_contents)]
    /\ consumer' = [pc |-> "idle", calls |-> consumer.calls]
    /\ UNCHANGED producer
    /\ UNCHANGED <<exec_vars, ir_vars, ctx_vars, probe, ar_vars>>

ResamplerInit ==
    /\ mem \in LinkPrograms
    /\ Reg = IdentityRegs
    /\ cond = AL
    /\ Constructed
    /\ probe = NoProbe

ResamplerNext ==
    \/ \E n \in AddFrames : AddSamplesBegin(n)
    \/ AddSamplesCopy
    \/ AddSamplesPublish
    \/ AddSamplesCount
    \/ \E n \in CallbackFrames : OutputCallbackBegin(n)
    \/ OutputCallbackSpeed
    \/ OutputCallbackLimit
    \/ OutputCallbackResample
    \/ OutputCallbackAdvance

SpecResampler == ResamplerInit /\ [][ResamplerNext]_vars

\* ------------------------------------------------------------------------
\* A pass over the IR: it starts from an empty block or from the builder the
\* translator leaves behind, adds values, rebinds arguments and replaces
\* values.  A failed assertion ends the pass.
\* ------------------------------------------------------------------------
IRRegs == {1}
IRConsts == {Zero32}
IROps == {"Add"}
IRLocations == {LocationDescriptor(A_0, FALSE, FALSE, AL),
                LocationDescriptor(A_FF8, FALSE, FALSE, AL)}

Values == 1..Len(builder.block.instructions)

IsMicroInst(v) == v.op \notin {"GetGPR", "ConstU32", "SetGPR"}

Fresh == builder = MicroBuilder(LocationDescriptor(Zero32, FALSE, FALSE, AL))

IRInit ==
    /\ Init
    /\ mem = MkMem(W_ADDS_R1_R2_3, W_B_SELF, W_B_SELF,
                   W_ADD_R1_R1_1, W_ADD_R1_R1_1, W_B_SELF)
    /\ Reg = IdentityRegs
    /\ cond = AL

IRTranslate(location) ==
    /\ Fresh
    /\ builder' = ArmTranslate(mem, location).ir
    /\ last_op' = [name |-> "Translate", value |-> 0, replacement |-> 0]
    /\ UNCHANGED <<exec_vars, edits, ext_vars>>

IRGetGPR(reg) ==
    /\ ~builder.fatal
    /\ Len(builder.block.instructions) < MaxValues
    /\ builder' = GetGPR(builder, reg)
    /\ last_op' = [name |-> "GetGPR", value |-> 0, replacement |-> 0]
    /\ UNCHANGED <<exec_vars, edits, ext_vars>>

IRConstU32(u32_value) ==
    /\ ~builder.fatal
    /\ Len(builder.block.instructions) < MaxValues
    /\ builder' = ConstU32(builder, u32_value)
    /\ last_op' = [name |-> "ConstU32", value |-> 0, replacement |-> 0]
    /\ UNCHANGED <<exec_vars, edits, ext_vars>>

IRInst(op, args) ==
    /\ ~builder.fatal
    /\ Len(builder.block.instructions) < MaxValues
    /\ builder' = Inst(builder, op, args, NoFlags)
    /\ last_op' = [name |-> "Inst", value |-> 0, replacement |-> 0]
    /\ UNCHANGED <<exec_vars, edits, ext_vars>>

IRSetGPR(reg, a) ==
    /\ ~builder.fatal
    /\ Len(builder.block.instructions) < MaxValues
    /\ builder' = SetGPR(builder, reg, a)
    /\ last_op' = [name |-> "SetGPR", value |-> 0, replacement |-> 0]
    /\ UNCHANGED <<exec_vars, edits, ext_vars>>

IRSetArg(owner, index, value) ==
    /\ ~builder.fatal
    /\ edits < MaxEdits
    /\ IF IsMicroInst(builder.block.instructions[owner])
       THEN builder' = MicroInst_SetArg(builder, owner, index, value)
       ELSE /\ builder.block.instructions[owner].op = "SetGPR"
            /\ index = 1
            /\ builder' = MicroSetGPR_SetArg(builder, owner, value)
    /\ edits' = edits + 1
    /\ last_op' = [name |-> "SetArg", value |-> owner, replacement |-> value]
    /\ UNCHANGED <<exec_vars, ext_vars>>

IRReplaceUsesWith(value, replacement, ub) ==
    /\ ~builder.fatal
    /\ edits < MaxEdits
    /\ builder' = ReplaceUsesWith(builder, value, replacement, ub)
    /\ edits' = edits + 1
    /\ last_op' = [name |-> "ReplaceUsesWith", value |-> value,
                   replacement |-> replacement]
    /\ UNCHANGED <<exec_vars, ext_vars>>

IRNext ==
    \/ \E l \in IRLocations : IRTranslate(l)
    \/ \E r \in IRRegs : IRGetGPR(r)
    \/ \E c \in IRConsts : IRConstU32(c)
    \/ \E op \in IROps, a, b \in Values : IRInst(op, <<a, b>>)
    \/ \E op \in IROps, a \in Values : IRInst(op, <<a>>)
    \/ \E r \in IRRegs, a \in Values : IRSetGPR(r, a)
    \/ \E u, v \in Values, i \in 1..3 : IRSetArg(u, i, v)
    \/ \E v, w \in Values, ub \in UBOutcomes : IRReplaceUsesWith(v, w, ub)

SpecIR == IRInit /\ [][IRNext]_vars

\* ------------------------------------------------------------------------
\* Emitting into a block with requested write flags: MicroBuilder::Inst with
\* its write_flags parameter, next to the emitters without one and to a
\* whole translation.
\* ------------------------------------------------------------------------
EmitOps == {"Add", "AddWithCarry"}
EmitFlagSets == {NoFlags, {"C"}, {"N", "Z"}, {"Q"}}

EmitInst(op, args, write_flags) ==
    /\ ~builder.fatal
    /\ Len(builder.block.instructions) < MaxValues
    /\ builder' = Inst(builder, op, args, write_flags)
    /\ last_op' = [name |-> "Inst", value |-> 0, replacement |-> 0]
    /\ UNCHANGED <<exec_vars, edits, ext_vars>>

EmitNext ==
    \/ \E l \in IRLocations : IRTranslate(l)
    \/ \E r \in IRRegs : IRGetGPR(r)
    \/ \E c \in IRConsts : IRConstU32(c)
    \/ \E op \in EmitOps, a, b \in Values, f \in EmitFlagSets : EmitInst(op, <<a, b>>, f)
    \/ \E op \in EmitOps, a \in Values, f \in EmitFlagSets : EmitInst(op, <<a>>, f)
    \/ \E r \in IRRegs, a \in Values : IRSetGPR(r, a)

SpecEmit == IRInit /\ [][EmitNext]_vars

\* ------------------------------------------------------------------------
\* Properties
\* ------------------------------------------------------------------------

\* C1: the block run for a descriptor is the one stored under it in
\* tac_cache; on a hit nothing is translated and the cache is left alone; on
\* a miss the descriptor is translated and lowered once and stored under
\* itself; no descriptor is translated twice between two clears; a stored
\* entry never changes while it stays in the cache.
C1_CacheDiscipline ==
    /\ [](pc = "run" => /\ cur.desc \in DOMAIN tac_cache
                        /\ tac_cache[cur.desc] = cur.block)
    /\ [](\A d \in DOMAIN ntrans : ntrans[d] <= 1)
    /\ [][/\ \A d \in DOMAIN tac_cache :
               d \in DOMAIN tac_cache' => tac_cache'[d] = tac_cache[d]
          /\ (pc = "dispatch" /\ pc' = "run" /\ CurrentDescriptor \in DOMAIN tac_cache)
                => /\ tac_cache' = tac_cache
                   /\ ntrans' = ntrans
                   /\ cur'.block = tac_cache[CurrentDescriptor]
          /\ (pc = "dispatch" /\ pc' = "run" /\ CurrentDescriptor \notin DOMAIN tac_cache)
                => /\ DOMAIN tac_cache' = DOMAIN tac_cache \cup {CurrentDescriptor}
                   /\ ntrans'[CurrentDescriptor] = 1
                   /\ tac_cache'[CurrentDescriptor] =
                          LowerBlock(Translate(mem, CurrentDescriptor).block)
                   /\ cur'.block = tac_cache'[CurrentDescriptor]]_vars

\* A block is about to run from a cache hit although the guest word it was
\* translated from has been overwritten since.
C1_Witness ==
    /\ pc = "run"
    /\ cur.hit
    /\ writes = 1
    /\ TranslateToTAC(mem, cur.desc).tac # cur.block

\* C2: each completed block lowers the budget by its cycles_consumed; after
\* a block the call returns exactly when reschedule is set or the budget is
\* not positive, and otherwise goes on to the next block; no block after
\* the first is started with a budget that is not positive.
C2_BudgetLoop ==
    /\ [][(pc = "run" /\ pc' = "check")
             => num_instructions' = num_instructions - cur.block.cycles_consumed]_vars
    /\ [][(pc = "check" /\ pc' # "check")
             => /\ pc' \in {"idle", "dispatch"}
                /\ pc' = "idle" <=> (reschedule \/ num_instructions <= 0)]_vars
    /\ [](pc \in {"dispatch", "run"} /\ ran => num_instructions > 0)

\* The loop went round: a block has completed, budget is left, the next
\* block is being looked up.
C2_Witness ==
    /\ pc = "dispatch"
    /\ ran
    /\ num_instructions = 1
    /\ cur.block.cycles_consumed = 1

\* C3: once reschedule is set while a block is running it stays set until
\* the call returns, the block's results are written back as the IR
\* prescribes, and the call returns without looking up another block even
\* when budget is left.
C3_Reschedule ==
    /\ [][(reschedule /\ pc \in {"run", "check"}) => reschedule' /\ pc' # "dispatch"]_vars
    /\ [][(reschedule /\ pc = "run" /\ pc' = "check")
             => LET e == ExecIR([Reg |-> Reg, Cpsr |-> Cpsr], cond,
                                ir_cache[cur.desc].block)
                IN  /\ Reg' = e.Reg
                    /\ cond' = e.cond
                    /\ <<TBit(Cpsr'), EBit(Cpsr'), NBit(Cpsr'), ZBit(Cpsr'),
                          CBit(Cpsr'), VBit(Cpsr')>> = <<e.T, e.E, e.N, e.Z, e.C, e.V>>]_vars
    /\ [][(reschedule /\ pc = "check" /\ pc' # "check") => pc' = "idle"]_vars

\* A block has completed with reschedule set and budget left; its results
\* (here r1 = r2 + 3) are in the register file.
C3_Witness ==
    /\ pc = "check"
    /\ reschedule
    /\ num_instructions > 0
    /\ Reg # pre.Reg

\* C4: with only LinkBlock-terminated blocks the executor never aborts, a
\* block of zero cycles links to a location whose block has at least one
\* cycle, a zero-cycle block is followed by a block of at least one cycle,
\* and every ExecuteInstructions call returns.
C4_Terminates ==
    /\ [](pc # "aborted")
    /\ [](\A d \in DOMAIN tac_cache :
             tac_cache[d].cycles_consumed = 0
               => /\ tac_cache[d].terminal.type = "LinkBlock"
                  /\ Translate(mem, tac_cache[d].terminal.next).block.cycles_consumed >= 1)
    /\ [][(pc = "dispatch" /\ pc' = "run" /\ ran /\ cur.block.cycles_consumed = 0)
             => cur'.block.cycles_consumed >= 1]_vars
    /\ (pc = "dispatch") ~> (pc = "idle")

\* A zero-cycle block has completed and the loop goes on with the budget
\* untouched.
C4_Witness ==
    /\ pc = "dispatch"
    /\ ran
    /\ cur.block.cycles_consumed = 0
    /\ mem \in LinkPrograms
    /\ writes = 0

\* The guest instructions of a translation that passed ConditionPassed and
\* were lowered, applied in order with the architecture's meaning of
\* ADD (immediate): R[d] := R[n] + ROR(imm8, 2 * rotate), R[15] read as the
\* instruction's address + 8.
RECURSIVE ArchAdds(_, _, _)
ArchAdds(R, visited, i) ==
    IF i > Len(visited) THEN R
    ELSE LET v == visited[i]
             lowered == /\ v.inst.name = "ADD_imm"
                        /\ v.inst.cond = v.at.cond
                        /\ v.flags_before = NoFlags
                        /\ v.inst.d # 15
             Rn == IF v.inst.n = 15 THEN Add32(v.at.arm_pc, <<0, 8>>) ELSE R[v.inst.n]
         IN  IF lowered
             THEN ArchAdds([R EXCEPT ![v.inst.d] =
                               Add32(Rn, ARMExpandImmRef(v.inst.imm8, v.inst.rotate))],
                           visited, i + 1)
             ELSE ArchAdds(R, visited, i + 1)

\* C5: after a block has run, every general-purpose register holds what the
\* block's lowered ADD (immediate) instructions prescribe, r[d] = r[n] + imm
\* modulo 2^32 with imm the instruction's immediate, and every other
\* register is unchanged.
C5_AddImm ==
    pc = "check"
      => \A i \in 0..14 :
             Reg[i] = ArchAdds(pre.Reg, ir_cache[cur.desc].visited, 1)[i]

\* C6: for every block selected to run, RunTAC on the lowered block leaves
\* the registers, the flags, T, E and the residual condition the IR block
\* prescribes, and both carry the same cycles_consumed.
C6_Refines ==
    pc = "run"
      => LET r == RunTAC([Reg |-> Reg, Cpsr |-> Cpsr], cond, cur.block)
             e == ExecIR([Reg |-> Reg, Cpsr |-> Cpsr], cond, ir_cache[cur.desc].block)
         IN  /\ cur.block.cycles_consumed = ir_cache[cur.desc].block.cycles_consumed
             /\ ~r.fatal
             /\ ~e.interpreted
                   => /\ r.Reg = e.Reg
                      /\ r.cond = e.cond
                      /\ <<TBit(r.Cpsr), EBit(r.Cpsr), NBit(r.Cpsr), ZBit(r.Cpsr),
                            CBit(r.Cpsr), VBit(r.Cpsr)>> = <<e.T, e.E, e.N, e.Z, e.C, e.V>>

\* C7: when a block whose terminal is LinkBlock(next) has run, r15, T, E and
\* the residual condition are those of next, so the descriptor built from
\* the guest state is next, and it is the descriptor the following
\* iteration looks up.
C7_LinkBlock ==
    /\ []((pc = "check" \/ (pc = "dispatch" /\ ran)) /\ cur.block.terminal.type = "LinkBlock"
            => /\ Reg[15] = cur.block.terminal.next.arm_pc
               /\ TBit(Cpsr) = cur.block.terminal.next.TFlag
               /\ EBit(Cpsr) = cur.block.terminal.next.EFlag
               /\ cond = cur.block.terminal.next.cond
               /\ CurrentDescriptor = cur.block.terminal.next)
    /\ [][(pc = "dispatch" /\ pc' = "run" /\ ran /\ cur.block.terminal.type = "LinkBlock")
             => cur'.desc = cur.block.terminal.next]_vars

\* A LinkBlock block has run and changed both r15 and the residual condition.
C7_Witness ==
    /\ pc = "dispatch"
    /\ ran
    /\ cur.block.terminal.type = "LinkBlock"
    /\ cond # pre.cond
    /\ Reg[15] # pre.Reg[15]

NonFlush(block) == Cardinality({i \in 1..Len(block.instructions) :
                                   block.instructions[i].op # "SetGPR"})

\* The conditions under which a guest instruction may be lowered.
MayLower(v) == v.inst.cond = v.at.cond /\ v.flags_before = NoFlags

\* At most one IR instruction writes flags and only the register write-back
\* follows it.
OneFlagWriter(block) ==
    \A i \in 1..Len(block.instructions) :
        block.instructions[i].write_flags # NoFlags
          => \A j \in (i + 1)..Len(block.instructions) :
                 block.instructions[j].op = "SetGPR"

C10_OnePage ==
    \A d \in DOMAIN ir_cache :
        LET h == ir_cache[d]
        IN  /\ \A a \in h.fetched :
                   a[1] = d.arm_pc[1] /\ a[2] \div 4096 = d.arm_pc[2] \div 4096
            /\ (And0xFFF(h.cursor.arm_pc) = 0 /\ h.block.terminal.type = "LinkBlock"
                  /\ h.block.cycles_consumed = Len(h.visited))
                  => \/ h.block.terminal.next = [d EXCEPT !.arm_pc = h.cursor.arm_pc]
                     \/ h.visited[Len(h.visited)].inst.name = "B"

\* The number of IR instructions in the block once the k-th guest
\* instruction met by the translation h was translated.
EmittedAfter(h, k) ==
    IF k < Len(h.visited) THEN h.visited[k + 1].emitted ELSE NonFlush(h.block)

\* The guest instructions of h that bound register i to a new value.
Rebinders(h, i) ==
    {k \in 1..Len(h.visited) : /\ h.visited[k].inst.name = "ADD_imm"
                                /\ h.visited[k].inst.d = i
                                /\ EmittedAfter(h, k) > h.visited[k].emitted}

\* The IR value register i is bound to at the end of h: the Add of the last
\* instruction that rebound it.
LastBinding(h, i) == EmittedAfter(h, CHOOSE k \in Rebinders(h, i) :
                                        \A j \in Rebinders(h, i) : j <= k)

\* C11: in every block translated from ARM code (looked at when it has just
\* been translated and stored; a stored block never changes), each register
\* r0..r14 that an instruction of the block rebound has exactly one SetGPR,
\* whose argument is the value the register is bound to at the end of the
\* translation; a register that was only read, or not touched, has none;
\* every SetGPR comes after every other instruction; and once the block has
\* run, each rebound register holds the value its binding computes from
\* the guest state the block started in.
C11_RegisterFlush ==
    /\ (pc = "run" /\ ~cur.hit /\ ~cur.desc.TFlag) =>
            LET h == ir_cache[cur.desc]
                ins == h.block.instructions
            IN  /\ \A i \in 0..14 :
                      LET sets == {j \in 1..Len(ins) : ins[j].op = "SetGPR" /\ ins[j].reg = i}
                      IN  IF Rebinders(h, i) # {}
                          THEN /\ Cardinality(sets) = 1
                               /\ h.reg_values[i] = LastBinding(h, i)
                               /\ \A j \in sets : ins[j].args = <<LastBinding(h, i)>>
                          ELSE sets = {}
                /\ \A j, k \in 1..Len(ins) :
                      ins[j].op = "SetGPR" /\ ins[k].op # "SetGPR" => k < j
    /\ pc = "check" =>
          LET h == ir_cache[cur.desc]
          IN  \A i \in 0..14 :
                  Rebinders(h, i) # {} =>
                      Reg[i] = IRValues(pre, h.block)[LastBinding(h, i)]

\* A block that rebinds r1 twice has run, and
\* a cached block that rebinds r1 reads r2 without writing it.
C11_Witness ==
    /\ pc = "check"
    /\ Cardinality(Rebinders(ir_cache[cur.desc], 1)) = 2
    /\ Reg[1] # pre.Reg[1]
    /\ \E d \in DOMAIN ir_cache :
          /\ Rebinders(ir_cache[d], 1) # {}
          /\ \E j \in 1..Len(ir_cache[d].block.instructions) :
                 /\ ir_cache[d].block.instructions[j].op = "GetGPR"
                 /\ ir_cache[d].block.instructions[j].reg = 2

\* C12: a block translated at a Thumb location is empty and ends in
\* Interpret(that location).  In a block translated from ARM code, a guest
\* instruction that decodes to None or whose visitor has no lowering is the
\* last one met; the terminal is Interpret(loc) with loc the cursor at that
\* instruction (the block's T, E and cond, and the block's start plus 4 for
\* every instruction before it); nothing is emitted for it; the IR of the
\* instructions before it stays in the block, followed by the SetGPR of
\* every register they rebound.
C12_InterpretFallback ==
    \A d \in DOMAIN ir_cache :
        LET h == ir_cache[d]
            n == Len(h.visited)
            ins == h.block.instructions
        IN  IF d.TFlag
            THEN /\ h.block.terminal = Interpret(d)
                 /\ ins = <<>>
                 /\ n = 0
            ELSE /\ n >= 1
                 /\ \A k \in 1..(n - 1) : h.visited[k].inst.name \in LoweredNames
                 /\ h.visited[n].inst.name \notin LoweredNames =>
                       /\ h.block.terminal = Interpret(h.visited[n].at)
                       /\ h.visited[n].at =
                              [d EXCEPT !.arm_pc = Add32(@, <<0, 4 * (n - 1)>>)]
                       /\ NonFlush(h.block) = h.visited[n].emitted
                       /\ \A j \in 1..h.visited[n].emitted : ins[j].op # "SetGPR"
                       /\ \A k \in 1..(n - 1) :
                             EmittedAfter(h, k) > h.visited[k].emitted =>
                                 ins[EmittedAfter(h, k)].op \in {"Add", "AddWithCarry"}
                       /\ \A i \in 0..14 :
                             Rebinders(h, i) # {} =>
                                 \E j \in 1..Len(ins) :
                                     /\ ins[j].op = "SetGPR"
                                     /\ ins[j].reg = i
                                     /\ ins[j].args = <<LastBinding(h, i)>>

\* An ARM block whose third instruction has no lowering was translated: it
\* holds the IR of the first two and the write-back of their register.
C12_Witness ==
    /\ pc = "run"
    /\ ~cur.desc.TFlag
    /\ cur.block.terminal.type = "Interpret"
    /\ Len(ir_cache[cur.desc].visited) = 3
    /\ ir_cache[cur.desc].visited[3].inst.name \notin LoweredNames
    /\ ir_cache[cur.desc].visited[3].emitted > 0
    /\ \E i \in 0..14 : Rebinders(ir_cache[cur.desc], i) # {}

\* C13: when the block about to run ends in Interpret, RunTAC does not
\* fail: it hands back the registers and flags the block's IR leaves, with
\* T, E and the residual condition untouched, and the loop goes on to its
\* test.
C13_InterpretReturns ==
    pc = "run" /\ cur.block.terminal.type = "Interpret"
      => LET r == RunTAC([Reg |-> Reg, Cpsr |-> Cpsr], cond, cur.block)
             e == ExecIR([Reg |-> Reg, Cpsr |-> Cpsr], cond, ir_cache[cur.desc].block)
         IN  /\ ~r.fatal
             /\ r.Reg = e.Reg
             /\ <<NBit(r.Cpsr), ZBit(r.Cpsr), CBit(r.Cpsr), VBit(r.Cpsr)>> =
                    <<e.N, e.Z, e.C, e.V>>

\* The number of entries of the sequence s equal to x.
Count(s, x) == Cardinality({i \in 1..Len(s) : s[i] = x})

\* Every value's use list holds, per user, as many entries as the user has
\* argument slots referring to the value.
UsesConsistent(block) ==
    \A v, u \in 1..Len(block.instructions) :
        Count(block.instructions[v].uses, u) = Count(block.instructions[u].args, v)

\* C14: as long as no assertion has failed, after every builder operation
\* and every SetArg (and on the block the translator hands over) the use
\* list of every value V has, for every user U, exactly as many entries
\* owned by U as U has argument slots that refer to V, and no entry of
\* anything that is not a value of the block.
C14_UseLists ==
    ~builder.fatal
      => /\ UsesConsistent(builder.block)
         /\ \A v \in Values :
               \A k \in 1..Len(builder.block.instructions[v].uses) :
                   builder.block.instructions[v].uses[k] \in Values

\* A SetArg has moved a slot of a two-slot user from one value to another:
\* the old value keeps one use of the user and the new one has gained one.
C14_Witness ==
    /\ ~builder.fatal
    /\ last_op.name = "SetArg"
    /\ \E u, v, w \in Values :
          /\ v # w
          /\ last_op.value = u
          /\ last_op.replacement = w
          /\ builder.block.instructions[u].args \in {<<v, w>>, <<w, v>>}
          /\ builder.block.instructions[v].uses = <<u>>
          /\ builder.block.instructions[w].uses = <<u>>

\* The slots of a MicroInst agree with the op's table entry: as many slots
\* as arg_types, and every bound slot holds a value of the slot's type.
ArgsValid(block, u) ==
    LET v == block.instructions[u]
    IN  /\ Len(v.args) = Len(micro_op_info[v.op].arg_types)
        /\ \A i \in 1..Len(v.args) :
              v.args[i] # 0 =>
                  GetType(block.instructions[v.args[i]]) = micro_op_info[v.op].arg_types[i]

\* C15: a step ReplaceUsesWith(V, W) with V and W distinct values of one
\* type ends without a failed assertion; afterwards V has no uses, every
\* slot that referred to V refers to W and every other slot is as before,
\* W's use list has gained one entry per such slot for the slot's owner,
\* and the use list of every other value holds what it held.
C15_ReplaceUsesWith ==
    [][LET V == last_op'.value
           W == last_op'.replacement
           old == builder.block.instructions
           new == builder'.block.instructions
       IN  (/\ last_op'.name = "ReplaceUsesWith"
            /\ V # W
            /\ GetType(old[V]) = GetType(old[W]))
             => /\ ~builder'.fatal
                /\ new[V].uses = <<>>
                /\ \A u \in 1..Len(old) :
                      \A i \in 1..Len(old[u].args) :
                          new[u].args[i] = IF old[u].args[i] = V THEN W
                                           ELSE old[u].args[i]
                /\ \A x \in (1..Len(old)) \ {V} :
                      \A u \in 1..Len(old) :
                          Count(new[x].uses, u) =
                              Count(old[x].uses, u) +
                              (IF x = W THEN Count(old[V].uses, u) ELSE 0)]_vars

\* C16: as long as no assertion has failed, every MicroInst of the block
\* has as many argument slots as its op declares and every slot holds a
\* value of the declared type, whatever SetArg and ReplaceUsesWith calls
\* were made: a value of another type is never stored.
C16_ArgTypes ==
    ~builder.fatal
      => \A u \in Values :
             IsMicroInst(builder.block.instructions[u]) => ArgsValid(builder.block, u)

\* C17: a ClearCache step leaves no entry in the block cache, and a dispatch
\* of a descriptor that was not translated since the last clear (also one
\* that was run before the clear) is a miss: the block stored and run is
\* the lowering of a translation of the guest memory as it is now.
C17_ClearCache ==
    [][/\ (ntrans # <<>> /\ ntrans' = <<>>) => tac_cache' = <<>>
       /\ (pc = "dispatch" /\ pc' = "run" /\ CurrentDescriptor \notin DOMAIN ntrans)
             => /\ ~cur'.hit
                /\ cur'.desc = CurrentDescriptor
                /\ cur'.block = LowerBlock(Translate(mem, CurrentDescriptor).block)
                /\ tac_cache'[CurrentDescriptor] = cur'.block]_vars

\* adds r1, r2, #3 at pc 0 was run (r1 = 0 from r2 = 0xFFFFFFFD), the word
\* was overwritten by add r1, r1, #1, the cache was cleared, and the second
\* call dispatches pc 0 again: the block about to run is the translation of
\* the new word, not of the old one.
C17_Witness ==
    /\ pc = "run"
    /\ ~cur.hit
    /\ runs = 2
    /\ writes = 1
    /\ cur.desc = LocationDescriptor(A_0, FALSE, FALSE, AL)
    /\ DOMAIN tac_cache = {cur.desc}
    /\ Reg[1] = Zero32
    /\ Reg[2] = <<65535, 65533>>
    /\ mem[A_0] = W_ADD_R1_R1_1
    /\ mem[A_4] = W_B_SELF
    /\ cur.block = LowerBlock(Translate(mem, cur.desc).block)
    /\ cur.block # LowerBlock(Translate([mem EXCEPT ![A_0] = W_ADDS_R1_R2_3],
                                        cur.desc).block)

\* C19: whenever the cache is searched or a found block is about to run,
\* two descriptors (cache keys and the descriptor of the current guest
\* state) compare equal exactly when arm_pc, TFlag, EFlag and cond are all
\* equal, and descriptors that compare equal have equal hashes; the block
\* about to run is the cache entry of the current descriptor, translated at
\* exactly that location, so entries that differ in one field (for one pc,
\* cond AL and cond EQ) are different entries.
C19_DescriptorKey ==
    /\ pc \in {"dispatch", "run"} =>
        \A a, b \in DOMAIN tac_cache \cup {CurrentDescriptor} :
          /\ DescriptorEquals(a, b) <=> /\ a.arm_pc = b.arm_pc
                                         /\ a.TFlag = b.TFlag
                                         /\ a.EFlag = b.EFlag
                                         /\ a.cond = b.cond
          /\ DescriptorEquals(a, b) => LocationDescriptorHash(a) = LocationDescriptorHash(b)
    /\ pc = "run" =>
          /\ cur.desc = CurrentDescriptor
          /\ cur.desc \in DOMAIN tac_cache
          /\ cur.block = tac_cache[cur.desc]
          /\ ir_cache[cur.desc].block.location = CurrentDescriptor

\* The cache holds the zero-instruction block of (pc, AL) and a block of
\* (pc, EQ), and the dispatch of (pc, EQ) is about to run the latter.
C19_Witness ==
    /\ pc = "run"
    /\ cur.desc.cond = EQ
    /\ cur.block.cycles_consumed >= 1
    /\ [cur.desc EXCEPT !.cond = AL] \in DOMAIN tac_cache
    /\ tac_cache[[cur.desc EXCEPT !.cond = AL]].cycles_consumed = 0
    /\ tac_cache[[cur.desc EXCEPT !.cond = AL]].instructions = <<>>

\* C18: a step InvalidateCacheRange(start, length) leaves in the block cache
\* exactly the entries whose arm_pc is below start or at or above start +
\* length, each as it was, so no T, E or cond variant of a pc in the range
\* stays; and the next dispatch at a descriptor removed that way is a miss
\* that stores and runs a new translation.
C18_InvalidateRange ==
    [][/\ \A r \in InvalidateRanges :
             (/\ pc = "idle"
              /\ ntrans' # ntrans
              /\ ntrans' = Outside(ntrans, r[1], r[2]))
               => /\ \A k \in DOMAIN tac_cache :
                        IF \/ Lt32(k.arm_pc, r[1])
                           \/ ~Lt32(k.arm_pc, Add32(r[1], r[2]))
                        THEN k \in DOMAIN tac_cache' /\ tac_cache'[k] = tac_cache[k]
                        ELSE k \notin DOMAIN tac_cache'
                  /\ DOMAIN tac_cache' \subseteq DOMAIN tac_cache
       /\ (pc = "dispatch" /\ pc' = "run" /\ CurrentDescriptor \notin DOMAIN ntrans)
             => /\ ~cur'.hit
                /\ cur'.block = LowerBlock(Translate(mem, CurrentDescriptor).block)
                /\ ntrans'[CurrentDescriptor] = 1]_vars

\* adds r1, r2, #3 at pc 0 and b . at pc 4 were run, InvalidateCacheRange(0,
\* 4) removed the block of pc 0 and kept the block of pc 4, and the second
\* call translates pc 0 again.
C18_Witness ==
    /\ pc = "run"
    /\ ~cur.hit
    /\ runs = 2
    /\ writes = 0
    /\ cur.desc = LocationDescriptor(A_0, FALSE, FALSE, AL)
    /\ mem[A_0] = W_ADDS_R1_R2_3
    /\ Reg[1] = Zero32
    /\ Reg[2] = <<65535, 65533>>
    /\ DOMAIN tac_cache = {cur.desc, LocationDescriptor(A_4, FALSE, FALSE, AL)}

LoadStep(c) == ctx_ops' = ctx_ops + 1 /\ ctx_last' = [name |-> "LoadContext", ctx |-> c]

SaveStep(c) == ctx_ops' = ctx_ops + 1 /\ ctx_last' = [name |-> "SaveContext", ctx |-> c]

\* C21: LoadContext(C) in the state S in which SaveContext(C) was last called
\* leaves r0..r15, CPSR, the VFP registers, FPSCR, FPEXC and the CP15
\* registers as they are in S, and a further SaveContext(C) leaves C as it
\* is, so that repeating the pair changes nothing.
C21_SaveThenLoad ==
    [][\A c \in Contexts :
           ctx_snap[c].saved /\ ctx_snap[c].cpu = CpuState =>
               /\ LoadStep(c) => CpuState' = CpuState
               /\ SaveStep(c) => contexts' = contexts]_vars

C21_Witness ==
    /\ ctx_last.name = "LoadContext"
    /\ ctx_snap[ctx_last.ctx].saved
    /\ ctx_snap[ctx_last.ctx].cpu = CpuState
    /\ CpuState.Reg[13] = <<32768, 7>>
    /\ ZBit(Cpsr)

\* C22: LoadContext(C) makes r0..r15, CPSR, the VFP registers, FPSCR, FPEXC
\* and the CP15 registers THREAD_UPRW and THREAD_URO what they were when
\* SaveContext(C) was last called, whatever happened in between.
C22_LoadRestores ==
    [][\A c \in Contexts :
           ctx_snap[c].saved /\ LoadStep(c) => CpuState' = ctx_snap[c].cpu]_vars

\* The flags a CPSR holds, in the order N, Z, C, V.
FlagsOf(cpsr) == <<NBit(cpsr), ZBit(cpsr), CBit(cpsr), VBit(cpsr)>>

\* C23: the Add micro-op writes dest = (a + b) mod 2^32; with the
\* write-flags bit set N is bit 31 of dest, Z is dest = 0, C is a + b >= 2^32
\* and V is "a and b of equal sign, dest of the other", as AddWithCarry(a, b,
\* 0) gives them; without the bit the flags stay.
C23_AddFlags ==
    probe.name = "ran" /\ ~probe.out.fatal =>
        LET a == probe.input.a
            b == probe.input.b
            dest == probe.out.Reg[3]
            ref == IRAddWithCarry(a, b, 0)
            sum == (a[1] * 2 + a[2] \div 32768) + (b[1] * 2 + b[2] \div 32768)
                   + ((a[2] % 32768) + (b[2] % 32768)) \div 32768
        IN  /\ dest = ref.value
            /\ dest = <<(sum \div 2) % W16, (a[2] + b[2]) % W16>>
            /\ IF probe.input.S
               THEN /\ FlagsOf(probe.out.Cpsr) = <<ref.N, ref.Z, ref.C, ref.V>>
                    /\ NBit(probe.out.Cpsr) = (dest[1] >= 32768)
                    /\ ZBit(probe.out.Cpsr) = (dest = Zero32)
                    /\ CBit(probe.out.Cpsr) = (sum >= 2 * W16)
                    /\ CBit(probe.out.Cpsr) = Lt32(dest, a)
                    /\ VBit(probe.out.Cpsr) = /\ (a[1] >= 32768) = (b[1] >= 32768)
                                              /\ (dest[1] >= 32768) # (a[1] >= 32768)
               ELSE FlagsOf(probe.out.Cpsr) = FlagsOf(probe.input.cpu_state.Cpsr)

C23_Witness ==
    /\ probe.name = "ran"
    /\ ~probe.out.fatal
    /\ probe.input.S
    /\ probe.input.a = <<32768, 0>>
    /\ probe.input.b = <<32768, 0>>
    /\ probe.out.Reg[3] = Zero32
    /\ FlagsOf(probe.out.Cpsr) = <<FALSE, TRUE, TRUE, TRUE>>

\* The block of a probe with another terminal.
ProbeWith(term) ==
    RunTAC(probe.input.cpu_state, probe.input.cond,
           [probe.input.block EXCEPT !.terminal = term])

\* C26: a block ending in LinkBlockFast(next) runs as the same block ending
\* in LinkBlock(next) does (r15, T, E and the residual cond from next), and
\* the executor does not fail.
C26_LinkBlockFast ==
    probe.name = "ran" /\ probe.input.block.terminal.type = "LinkBlockFast" =>
        /\ ~probe.out.fatal
        /\ probe.out = ProbeWith(LinkBlock(probe.input.block.terminal.next))

\* ConditionPassed of the ARM architecture: cond against N, Z, C, V.
CondHolds(c, f) ==
    LET N == f[1]
        Z == f[2]
        C == f[3]
        V == f[4]
        base == CASE c \div 2 = 0 -> Z
                  [] c \div 2 = 1 -> C
                  [] c \div 2 = 2 -> N
                  [] c \div 2 = 3 -> V
                  [] c \div 2 = 4 -> C /\ ~Z
                  [] c \div 2 = 5 -> N = V
                  [] c \div 2 = 6 -> N = V /\ ~Z
                  [] OTHER -> TRUE
    IN  IF c % 2 = 1 /\ c # NV THEN ~base ELSE base

\* The terminal an If comes down to under the flags f.
RECURSIVE SelectTerminal(_, _)
SelectTerminal(term, f) ==
    IF term.type # "If" THEN term
    ELSE IF CondHolds(term.if_, f) THEN SelectTerminal(term.then_, f)
    ELSE SelectTerminal(term.else_, f)

\* C27: a block ending in If{cond, then_, else_} runs as the same block
\* ending in then_ does when cond holds of the flags its instructions leave
\* and as the one ending in else_ otherwise, nested If terminals included.
C27_IfTerminal ==
    probe.name = "ran" /\ probe.input.block.terminal.type = "If" =>
        /\ ~probe.out.fatal
        /\ probe.out = ProbeWith(SelectTerminal(probe.input.block.terminal,
                                                FlagsOf(ProbeWith(ReturnToDispatch).Cpsr)))

\* The u32 of an integer of either sign, modulo 2^32.
ToU32(x) == <<((x - (x % W16)) \div W16) % W16, x % W16>>

\* The last guest instruction a translation met.
LastVisited(t) == t.visited[Len(t.visited)]

\* The values the write-back at the end of a translation stores.
Flushed(t) ==
    {i \in 0..14 : t.reg_values[i] # 0 /\ t.block.instructions[t.reg_values[i]].op # "GetGPR"}

\* C24: a B met at cursor A that passes the condition check adds no IR and
\* ends the block with LinkBlock(next), next.arm_pc = (A + 8 +
\* SignExtend(imm24 : '00')) mod 2^32 and next.T, next.E, next.cond those of
\* the current location; b +8 at 0 links to 16 and b . at 4 links to 4.
C24_BranchTarget ==
    probe.name = "translated" /\ probe.out.visited # <<>> =>
        LET t == probe.out
            v == LastVisited(t)
            imm24 == v.inst.imm24
            offset == IF imm24 >= 8388608 THEN imm24 * 4 - 67108864 ELSE imm24 * 4
            next == t.block.terminal.next
            word == Read32(probe.input.mem, v.at.arm_pc)
        IN  v.inst.name = "B" /\ Passed(v) =>
                /\ ~t.fatal
                /\ t.block.terminal.type = "LinkBlock"
                /\ next.arm_pc = Add32(v.at.arm_pc, ToU32(8 + offset))
                /\ <<next.TFlag, next.EFlag, next.cond>> = <<v.at.TFlag, v.at.EFlag, v.at.cond>>
                /\ Len(t.block.instructions) = v.emitted + Cardinality(Flushed(t))
                /\ \A i \in (v.emitted + 1)..Len(t.block.instructions) :
                       t.block.instructions[i].op = "SetGPR"
                /\ Len(t.visited) = 1 => t.block.instructions = <<>>
                /\ v.at.arm_pc = A_0 /\ word = W_B_PLUS8 => next.arm_pc = <<0, 16>>
                /\ v.at.arm_pc = A_4 /\ word = W_B_SELF => next.arm_pc = A_4

C24_Witness ==
    /\ probe.name = "translated"
    /\ probe.input.location = LocationDescriptor(A_0, FALSE, TRUE, AL)
    /\ Len(probe.out.visited) = 2
    /\ probe.out.visited[1].inst.name = "ADD_imm"
    /\ probe.out.visited[2].inst.name = "B"
    /\ Read32(probe.input.mem, A_4) = W_B_MINBACK
    /\ probe.out.block.terminal = LinkBlock(LocationDescriptor(<<65024, 12>>, FALSE, TRUE, AL))

\* Whether the last guest instruction of translation t was met and turned
\* away by ConditionPassed.
LastRejected(t) ==
    /\ t.visited # <<>>
    /\ LastVisited(t).inst.name \in LoweredNames
    /\ ~Passed(LastVisited(t))

\* C25: the cycles_consumed of a translated block is the number of guest
\* instructions the translation visited, less one if the last of them was
\* rejected by the condition check; and while every block of a call has
\* ended in LinkBlock, the budget the call has used up (the sum of the
\* cycles_consumed of its blocks) is the number of guest instructions it has
\* carried out.
C25_CyclesConsumed ==
    /\ pc = "run" /\ ~cur.hit =>
           LET t == ir_cache[cur.desc]
           IN  cur.block.cycles_consumed =
                   Len(t.visited) - (IF LastRejected(t) THEN 1 ELSE 0)
    /\ pc = "check" =>
           /\ cur.block.terminal.type = "LinkBlock"
           /\ requested - num_instructions = applied

C25_Witness ==
    /\ pc = "check"
    /\ applied = 2
    /\ requested - num_instructions = 2
    /\ \E d \in DOMAIN ir_cache :
           /\ LastRejected(ir_cache[d])
           /\ Len(ir_cache[d].visited) = 2
           /\ tac_cache[d].cycles_consumed = 1

\* C30: a block dispatched at (pc, cond = c), c other than AL, whose first
\* guest instruction carries the condition c, run when the flags do not
\* satisfy c, leaves r0..r14 and N, Z, C, V as they were and continues at
\* pc + 4.
C30_ConditionalExecution ==
    pc = "check" /\ cur.desc.cond # AL /\ ~cur.desc.TFlag =>
        LET t == ir_cache[cur.desc]
        IN  /\ t.visited # <<>>
            /\ t.visited[1].inst.cond = cur.desc.cond
            /\ ~CondHolds(cur.desc.cond, FlagsOf(pre.Cpsr))
            => /\ \A i \in 0..14 : Reg[i] = pre.Reg[i]
               /\ FlagsOf(Cpsr) = FlagsOf(pre.Cpsr)
               /\ Reg[15] = Add32(pre.Reg[15], <<0, 4>>)

\* A load step of the host.
ArchiveLoadStep ==
    ctx_ops' = ctx_ops + 1 /\ ctx_last' = [name |-> "load", ctx |-> archive.file_version]

C31_RegisterReads ==
    probe.name = "translated" /\ ~probe.out.fatal =>
        LET h == probe.out
            ins == h.block.instructions
            Gets(i) == {p \in 1..Len(ins) : ins[p].op = "GetGPR" /\ ins[p].reg = i}
            Lowered(k) == /\ h.visited[k].inst.name = "ADD_imm"
                          /\ EmittedAfter(h, k) > h.visited[k].emitted
            entry == [Reg |-> IdentityRegs, Cpsr |-> <<0, 16>>]
        IN  /\ \A i \in 0..14 : Cardinality(Gets(i)) <= 1
            /\ \A p, q \in 1..Len(ins) :
                   ins[p].op = "GetGPR" /\ ins[q].op = "SetGPR" => p < q
            /\ \A p \in 1..Len(ins) :
                   ins[p].op = "GetGPR" =>
                       IRValues(entry, h.block)[p] = IdentityRegs[ins[p].reg]
            /\ \A k \in 1..Len(h.visited) :
                   Lowered(k) /\ h.visited[k].inst.n # 15 =>
                       LET n == h.visited[k].inst.n
                           e == h.visited[k].emitted
                           add == ins[EmittedAfter(h, k)]
                           writers == {j \in Rebinders(h, n) : j < k}
                           readers == {j \in 1..(k - 1) :
                                          Lowered(j) /\ h.visited[j].inst.n = n}
                           fresh == {p \in Gets(n) : p > e /\ p <= EmittedAfter(h, k)}
                       IN  IF writers # {}
                           THEN /\ fresh = {}
                                /\ add.args[1] =
                                       EmittedAfter(h, CHOOSE j \in writers :
                                                           \A j2 \in writers : j2 <= j)
                           ELSE IF readers # {}
                           THEN fresh = {} /\ add.args[1] \in Gets(n)
                           ELSE fresh = {e + 1} /\ add.args[1] = e + 1

\* add r1, r1, #1; add r0, r1, #0x100; b .: the second ADD reads the first
\* one's Add, and r1 has its one GetGPR at the head of the block.
C31_Witness ==
    /\ probe.name = "translated"
    /\ ~probe.out.fatal
    /\ probe.input.location = LocationDescriptor(A_0, FALSE, FALSE, AL)
    /\ Read32(probe.input.mem, A_0) = W_ADD_R1_R1_1
    /\ Read32(probe.input.mem, A_4) = W_ADD_R0_R1_ROT
    /\ Len(probe.out.visited) = 3
    /\ Len(probe.out.block.instructions) = 7
    /\ probe.out.block.instructions[1].op = "GetGPR"
    /\ probe.out.block.instructions[3].args = <<1, 2>>
    /\ probe.out.block.instructions[5].args = <<3, 4>>
    /\ probe.out.block.instructions[6].op = "SetGPR"

\* Whether the k-th guest instruction met by the translation h sets the
\* block terminal: it has no lowering or does not decode, it is turned away
\* by the condition check, it is a B, or it is an ADD (immediate) into the PC.
SetsTerminal(h, k) ==
    LET v == h.visited[k]
    IN  \/ v.inst.name \notin LoweredNames
        \/ ~Passed(v)
        \/ v.inst.name = "B"
        \/ v.inst.d = 15

\* C35: in the loop of Translate stop_compilation is true at the end exactly
\* if the last guest instruction met set the terminal, and then the terminal
\* is the one it set; no instruction is fetched or decoded after one that
\* set the terminal, and when none did the loop ended at a page boundary and
\* the terminal is LinkBlock(cursor); one word is fetched per instruction
\* met; every instruction is met at the start location's T, E and cond and
\* 4 bytes after the one before, and the cursor ends 4 bytes after the last
\* decoded one.
C35_StopCompilation ==
    probe.name = "translated" /\ ~probe.out.fatal =>
        LET h == probe.out
            n == Len(h.visited)
            loc == probe.input.location
            At(k) == [loc EXCEPT !.arm_pc = Add32(loc.arm_pc, <<0, 4 * (k - 1)>>)]
            loop == TranslateLoop(probe.input.mem, ArmTranslator(loc))
            term == h.block.terminal
        IN  /\ n >= 1
            /\ \A k \in 1..n : h.visited[k].at = At(k)
            /\ \A k \in 1..(n - 1) : ~SetsTerminal(h, k)
            /\ h.fetched = {AndFFFFFFFC(h.visited[k].at.arm_pc) : k \in 1..n}
            /\ loop.stop_compilation = SetsTerminal(h, n)
            /\ h.cursor = IF h.visited[n].inst.name = "None" THEN At(n) ELSE At(n + 1)
            /\ IF SetsTerminal(h, n)
               THEN LET v == h.visited[n]
                    IN  CASE v.inst.name \notin LoweredNames -> term = Interpret(At(n))
                          [] v.inst.name \in LoweredNames /\ ~Passed(v) ->
                                 term = LinkBlock([At(n) EXCEPT !.cond = v.inst.cond])
                          [] OTHER -> /\ v.inst.name = "B"
                                      /\ term.type = "LinkBlock"
                                      /\ <<term.next.TFlag, term.next.EFlag, term.next.cond>>
                                             = <<loc.TFlag, loc.EFlag, loc.cond>>
               ELSE /\ And0xFFF(h.cursor.arm_pc) = 0
                    /\ term = LinkBlock(h.cursor)

\* add r1, r1, #1; add r0, r1, #0x100; b . from a location with E set: the
\* B, third instruction met, sets the terminal; the cursor ends at 12.
C35_Witness ==
    /\ probe.name = "translated"
    /\ ~probe.out.fatal
    /\ Len(probe.out.visited) = 3
    /\ probe.out.visited[3].inst.name = "B"
    /\ probe.out.visited[3].at.arm_pc = A_8
    /\ probe.out.cursor.arm_pc = <<0, 12>>
    /\ probe.input.location.EFlag

\* A block that ends at the page boundary with no instruction having set
\* the terminal.
C35_PageEnd ==
    /\ probe.name = "translated"
    /\ ~probe.out.fatal
    /\ ~SetsTerminal(probe.out, Len(probe.out.visited))

\* C36: a block whose last guest instruction is an ADD (immediate) into the
\* PC that passed the condition check is built without a fatal error, ends
\* in ReturnToDispatch and holds an Add followed by a BranchWritePC of its
\* result; run from its start location with residual cond EQ, the lowered
\* block ends without a fatal error, leaves in r15 the sum with its two low
\* bits cleared and leaves the residual cond AL.
C36_AddToPC ==
    (/\ probe.name = "translated"
     /\ Len(probe.out.visited) >= 1
     /\ LastVisited(probe.out).inst.name = "ADD_imm"
     /\ LastVisited(probe.out).inst.d = 15
     /\ Passed(LastVisited(probe.out))) =>
        LET t == probe.out
            insts == t.block.instructions
            cpu_state == [Reg |-> [i \in 0..15 |-> IF i = 15 THEN probe.input.location.arm_pc
                                                   ELSE <<0, i>>],
                          Cpsr |-> PackCpsr(<<0, 16>>, FALSE, probe.input.location.EFlag,
                                            FALSE, FALSE, FALSE, FALSE)]
            Ran(r, sum) == /\ ~r.fatal
                           /\ r.Reg[15] = AndFFFFFFFC(sum)
                           /\ r.cond = AL
        IN  /\ ~t.fatal
            /\ t.block.terminal = ReturnToDispatch
            /\ \E i \in 2..Len(insts) : /\ insts[i].op = "BranchWritePC"
                                        /\ insts[i].args = <<i - 1>>
                                        /\ insts[i - 1].op = "Add"
                                        /\ Ran(RunTAC(cpu_state, EQ, LowerBlock(t.block)),
                                               IRValues(cpu_state, t.block)[i - 1])

\* The guest instructions the 4 KiB page of the address pc holds from pc on.
PageRest(arm_pc) == (4096 - And0xFFF(arm_pc) + 3) \div 4

C32_WriteFlags ==
    /\ [](~builder.fatal =>
             builder.flags_written =
                 UNION {builder.block.instructions[i].write_flags : i \in Values})
    /\ [][\A op \in EmitOps, f \in EmitFlagSets :
             \A args \in {<<a>> : a \in Values} \cup (Values \X Values) :
                 EmitInst(op, args, f) =>
                     /\ (f \ micro_op_info[op].default_write_flags) # NoFlags
                            => builder'.fatal
                     /\ ~builder'.fatal =>
                            /\ Len(builder'.block.instructions)
                                   = Len(builder.block.instructions) + 1
                            /\ builder'.block.instructions[LastValue(builder')].op = op
                            /\ builder'.block.instructions[LastValue(builder')].write_flags = f
                            /\ builder'.flags_written = builder.flags_written \cup f]_vars

\* A block holding an Add that writes only C and an AddWithCarry that writes
\* N and Z: flags_written is {N, Z, C}.
C32_Witness ==
    /\ ~builder.fatal
    /\ \E i, j \in Values : /\ builder.block.instructions[i].op = "Add"
                            /\ builder.block.instructions[i].write_flags = {"C"}
                            /\ builder.block.instructions[j].op = "AddWithCarry"
                            /\ builder.block.instructions[j].write_flags = {"N", "Z"}
    /\ builder.flags_written = {"N", "Z", "C"}

\* The CPSR without its N, Z, C, V (bits 31..28), E (bit 9) and T (bit 5).
OtherCpsrBits(cpsr) ==
    <<cpsr[1] % 4096, cpsr[2] - 32 * Bit16(cpsr[2], 5) - 512 * Bit16(cpsr[2], 9)>>

\* C34: when RunTAC has run a block to its end, N, Z, C and V are as at
\* entry unless an instruction of the block has its write-flags bit set; T
\* and E are as at entry unless the terminal is a LinkBlock, and then they
\* are those of its target; every other bit of the CPSR (Q, J, GE, A, I, F,
\* the mode and the rest) is as at entry.
C34_CpsrFrame ==
    probe.name = "ran" /\ ~probe.out.fatal =>
        LET before == probe.input.cpu_state.Cpsr
            after == probe.out.Cpsr
            block == probe.input.block
            NZCVOf(cpsr) == <<NBit(cpsr), ZBit(cpsr), CBit(cpsr), VBit(cpsr)>>
            TEOf(cpsr) == <<TBit(cpsr), EBit(cpsr)>>
        IN  /\ (\A i \in 1..Len(block.instructions) :
                    block.instructions[i].opcode < WriteFlagsBit)
                   => NZCVOf(after) = NZCVOf(before)
            /\ IF block.terminal.type \in {"LinkBlock", "LinkBlockFast"}
               THEN TEOf(after) = <<block.terminal.next.TFlag, block.terminal.next.EFlag>>
               ELSE TEOf(after) = TEOf(before)
            /\ OtherCpsrBits(after) = OtherCpsrBits(before)

\* r3 := r1 + r2 without S, ended by LinkBlock to a location with T = 0 and
\* E = 0, run with N, Z, C, V, Q, J, GE, E, A, I, F and T set: T and E are
\* cleared and nothing else changes.
C34_Witness ==
    /\ probe.name = "ran"
    /\ ~probe.out.fatal
    /\ ~probe.input.S
    /\ probe.input.block.terminal.type = "LinkBlock"
    /\ probe.input.cpu_state.Cpsr = <<63759, 1008>>
    /\ probe.out.Cpsr = <<63759, 464>>

\* C37: the descriptor of every dispatched block has the T and E of the
\* CPSR's bits 5 and 9 at the time of the dispatch (nothing writes the CPSR
\* between the dispatch and the run of the block), whatever SetCPSR or
\* LoadContext put there since the block before.
C37_DescriptorTE ==
    pc = "run" => /\ cur.desc.TFlag = TBit(Cpsr)
                  /\ cur.desc.EFlag = EBit(Cpsr)
                  /\ cur.desc.arm_pc = Reg[15]

\* A block was dispatched with E set (after SetCPSR(0x210)); LoadContext of
\* a context saved with E clear followed, and the block now dispatched has
\* E clear.
C37_Witness ==
    /\ pc = "run"
    /\ ctx_last.name = "LoadContext"
    /\ ~cur.desc.EFlag
    /\ \E d \in DOMAIN tac_cache : d.EFlag

\* C39: once a block has run, a call of SetPC or LoadContext leaves the
\* executor such that the descriptor the next dispatch builds has cond AL
\* (between the call and that dispatch nothing writes the residual cond).
C39_Redirect ==
    [][(/\ pc = "idle"
        /\ runs >= 1
        /\ ctx_ops' = ctx_ops + 1
        /\ ctx_last'.name \in {"SetReg", "LoadContext"})
           => CurrentDescriptor'.cond = AL]_vars

\* C38: from construction until the first block has run the residual cond
\* is AL, and the first block dispatched after construction is dispatched at
\* (r15, T, E, AL).
C38_InitialCond ==
    (runs = 0 \/ (runs = 1 /\ ~ran /\ pc \in {"dispatch", "run"})) =>
        /\ cond = AL
        /\ pc = "run" => cur.desc = LocationDescriptor(Reg[15], TBit(Cpsr), EBit(Cpsr), AL)

\* C40: the resampler FIFO keeps its indices apart.  Between calls and at
\* every step of them 1 <= write_index - read_index <= buffer_size - 1;
\* AddSamples accepts no more frames than are free, so that no unread frame
\* is overwritten, and each of its copies lies inside the buffer; the output
\* callback never moves read_index up to write_index or past it.
C40_IndexDistance ==
    /\ resampler.write_index - resampler.read_index >= 1
    /\ resampler.write_index - resampler.read_index <= buffer_size - 1
    /\ producer.pc = "publish" =>
          /\ producer.num_frames + (resampler.write_index - resampler.read_index)
                <= buffer_size
          /\ \A i \in DOMAIN producer.copies :
                producer.copies[i].at + producer.copies[i].len <= buffer_size
    /\ consumer.pc = "advance" =>
          resampler.read_index + Min(consumer.in, consumer.buffer_contents)
             < resampler.write_index

====
